---- MODULE Spec2Model ----
(***************************************************************************)
(* A model of orthofetch's reference parsing and resolution engine         *)
(* (src/orthofetch.py): parse_reading_reference, get_bible_text,           *)
(* display_reading and handle_bible_command.  Strings are sequences of     *)
(* one-character strings, so that parsing and formatting are computed      *)
(* character by character.                                                 *)
(***************************************************************************)
EXTENDS Integers, Sequences, FiniteSets, TLC

VARIABLES
    pc,                 \* "call": the call is about to run; "done": it returned
    fn,                 \* the function called
    args,               \* its arguments
    ret,                \* its return value
    clean_readings,     \* display_reading's list of citations
    parsed_references,  \* display_reading's list of canonical references
    stdout,             \* what the call printed, one entry per print()
    random_verse,       \* what get_random_verse returned to handle_random_verse
    no_color,           \* the global no_color
    BIBLE_DIR           \* the JSON files of the verse store

vars == <<pc, fn, args, ret, clean_readings, parsed_references, stdout, random_verse,
          no_color, BIBLE_DIR>>

(***************************************************************************)
(* Python string primitives                                                *)
(***************************************************************************)

\* A Python str literal as the sequence of its characters.
Chars(s) == [i \in 1..Len(s) |-> SubSeq(s, i, i)]

\* Body(value), with the value computed once: TLC evaluates a LET name or a
\* parameter anew at each of its uses, and a name bound by a set constructor
\* once.  With(e, LAMBDA x : b) is b with x standing for the value of e.
With(value, Body(_)) == CHOOSE r \in {Body(v) : v \in {value}} : TRUE

Digits == <<"0", "1", "2", "3", "4", "5", "6", "7", "8", "9">>

\* str.isdigit() of one character, regex \d
IsDigitChar(c) == \E i \in 1..10 : Digits[i] = c

\* regex \s (the only whitespace of the modelled alphabet is the blank)
IsSpaceChar(c) == c = " "

\* regex [A-Za-z]
IsAlphaChar(c) ==
    c \in {"A", "B", "C", "D", "E", "F", "G", "H", "I", "J", "K", "L", "M",
           "N", "O", "P", "Q", "R", "S", "T", "U", "V", "W", "X", "Y", "Z",
           "a", "b", "c", "d", "e", "f", "g", "h", "i", "j", "k", "l", "m",
           "n", "o", "p", "q", "r", "s", "t", "u", "v", "w", "x", "y", "z"}

\* regex [0-9A-Za-z\s]
IsBookChar(c) == IsDigitChar(c) \/ IsAlphaChar(c) \/ IsSpaceChar(c)

\* s[from:] (1-based from)
Drop(s, from) == SubSeq(s, from, Len(s))

\* s.startswith(p, at), at 1-based
StartsWithAt(s, p, at) ==
    /\ at + Len(p) - 1 <= Len(s)
    /\ \A i \in 1..Len(p) : s[at + i - 1] = p[i]

\* s.startswith(p)
StartsWith(s, p) == StartsWithAt(s, p, 1)

\* p in s
Contains(s, p) == \E at \in 1..(Len(s) - Len(p) + 1) : StartsWithAt(s, p, at)

\* s.find(p) as a 1-based index, 0 when p does not occur
Find(s, p) ==
    IF Contains(s, p)
    THEN CHOOSE at \in 1..(Len(s) - Len(p) + 1) :
            /\ StartsWithAt(s, p, at)
            /\ \A b \in 1..(at - 1) : ~StartsWithAt(s, p, b)
    ELSE 0

\* s.strip()
RECURSIVE LStrip(_)
LStrip(s) == IF s # <<>> /\ IsSpaceChar(Head(s)) THEN LStrip(Tail(s)) ELSE s

RECURSIVE RStrip(_)
RStrip(s) ==
    IF s # <<>> /\ IsSpaceChar(s[Len(s)]) THEN RStrip(SubSeq(s, 1, Len(s) - 1)) ELSE s

Strip(s) == RStrip(LStrip(s))

\* s.isdigit()
IsDigit(s) == s # <<>> /\ \A i \in 1..Len(s) : IsDigitChar(s[i])

\* s.replace(old, new): every non-overlapping occurrence, left to right
RECURSIVE Replace(_, _, _)
Replace(s, old, new) ==
    IF s = <<>> THEN <<>>
    ELSE IF StartsWith(s, old) THEN new \o Replace(Drop(s, Len(old) + 1), old, new)
    ELSE <<Head(s)>> \o Replace(Tail(s), old, new)

\* s.split(sep): the pieces between the occurrences of sep (never empty list)
RECURSIVE Split(_, _)
Split(s, sep) ==
    With(Find(s, sep), LAMBDA at :
        IF at = 0 THEN <<s>>
        ELSE <<SubSeq(s, 1, at - 1)>>
                \o With(Drop(s, at + Len(sep)), LAMBDA rest : Split(rest, sep)))

\* the concatenation of a sequence of sequences
RECURSIVE FlattenFrom(_, _)
FlattenFrom(seqs, i) ==
    IF i > Len(seqs) THEN <<>> ELSE seqs[i] \o FlattenFrom(seqs, i + 1)

Flatten(seqs) == FlattenFrom(seqs, 1)

\* sep.join(parts)
RECURSIVE Join(_, _)
Join(sep, parts) ==
    IF parts = <<>> THEN <<>>
    ELSE IF Len(parts) = 1 THEN parts[1]
    ELSE parts[1] \o sep \o Join(sep, Tail(parts))

DigitValue(c) == (CHOOSE i \in 1..10 : Digits[i] = c) - 1

\* the value of a run of decimal digits
RECURSIVE DigitsValue(_)
DigitsValue(s) ==
    IF s = <<>> THEN 0
    ELSE 10 * DigitsValue(SubSeq(s, 1, Len(s) - 1)) + DigitValue(s[Len(s)])

\* int(s): surrounding whitespace is accepted; anything but decimal digits
\* raises ValueError, modelled as the result ValueError (-1: no sign
\* character ever reaches int in the modelled callers).
ValueError == -1
int(s) ==
    LET stripped == Strip(s)
    IN  IF IsDigit(stripped) THEN DigitsValue(stripped) ELSE ValueError

\* str(n) for n >= 0
RECURSIVE str(_)
str(n) == IF n < 10 THEN <<Digits[n + 1]>> ELSE str(n \div 10) \o <<Digits[(n % 10) + 1]>>

\* the length of the run of characters satisfying a class, starting at `at`
RECURSIVE DigitRun(_, _)
DigitRun(s, at) ==
    IF at <= Len(s) /\ IsDigitChar(s[at]) THEN 1 + DigitRun(s, at + 1) ELSE 0

RECURSIVE SpaceRun(_, _)
SpaceRun(s, at) ==
    IF at <= Len(s) /\ IsSpaceChar(s[at]) THEN 1 + SpaceRun(s, at + 1) ELSE 0

RECURSIVE BookRun(_, _)
BookRun(s, at) ==
    IF at <= Len(s) /\ IsBookChar(s[at]) THEN 1 + BookRun(s, at + 1) ELSE 0

CharAt(s, at) == IF at >= 1 /\ at <= Len(s) THEN s[at] ELSE ""

(***************************************************************************)
(* Book registry                                                           *)
(***************************************************************************)

\* The registry keys the model uses, each with its short code.
BOOK_CODES ==
    <<  <<Chars("Genesis"), Chars("GEN")>>,
        <<Chars("Job"), Chars("JOB")>>,
        <<Chars("Psalms"), Chars("PSA")>>,
        <<Chars("John"), Chars("JHN")>>,
        <<Chars("1 Kings"), Chars("1KI")>>,
        <<Chars("Song of Solomon"), Chars("SNG")>>,
        <<Chars("Wisdom of Solomon"), Chars("WIS")>>,
        <<Chars("Esther (Greek)"), Chars("ESG")>>,
        <<Chars("Psalm 151"), Chars("P151")>>  >>

BookNames == {BOOK_CODES[i][1] : i \in 1..Len(BOOK_CODES)}

\* BOOK_CODES.get(book); None is the empty string
BookCode(book) ==
    IF book \in BookNames
    THEN (CHOOSE e \in {BOOK_CODES[i] : i \in 1..Len(BOOK_CODES)} : e[1] = book)[2]
    ELSE <<>>

(***************************************************************************)
(* parse_reading_reference                                                 *)
(***************************************************************************)

None == <<>>

\* re.sub(r'(\d+)\[(\d+)\]\s+Kings', r'\2 Kings', reference): at the leftmost
\* position where the pattern matches, the match is replaced by group 2 and
\* " Kings"; the scan goes on after the match.
KingsMatchEnd(s, at) ==
    LET d1 == DigitRun(s, at)
        p2 == at + d1 + 1
        d2 == DigitRun(s, p2)
        p3 == p2 + d2 + 1
        sp == SpaceRun(s, p3)
    IN  IF /\ d1 >= 1
           /\ CharAt(s, at + d1) = "["
           /\ d2 >= 1
           /\ CharAt(s, p2 + d2) = "]"
           /\ sp >= 1
           /\ StartsWithAt(s, Chars("Kings"), p3 + sp)
        THEN p3 + sp + 5
        ELSE 0

\* KingsGroup2 taking the number before the bracket
KingsGroup1(s, at) == SubSeq(s, at, at + DigitRun(s, at) - 1)

KingsGroup2(s, at) ==
    LET d1 == DigitRun(s, at)
    IN  SubSeq(s, at + d1 + 1, at + d1 + DigitRun(s, at + d1 + 1))

RECURSIVE KingsRewrite(_)
KingsRewrite(s) ==
    LET match_end == KingsMatchEnd(s, 1)
    IN  IF s = <<>> THEN <<>>
        ELSE IF match_end # 0
             THEN KingsGroup2(s, 1) \o Chars(" Kings") \o KingsRewrite(Drop(s, match_end))
             ELSE <<Head(s)>> \o KingsRewrite(Tail(s))

\* The tail \s+(\d+)[:](\d+)[-:](\d+)[:](\d+) of cross_chapter_pattern tried
\* right after a group 1 that ends at g1: the four numbers, or None.
CrossTail(s, g1) ==
    LET sp == SpaceRun(s, g1 + 1)
        a  == g1 + 1 + sp
        n1 == DigitRun(s, a)
        b  == a + n1 + 1
        n2 == DigitRun(s, b)
        c  == b + n2 + 1
        n3 == DigitRun(s, c)
        d  == c + n3 + 1
        n4 == DigitRun(s, d)
    IN  IF /\ sp >= 1
           /\ n1 >= 1 /\ CharAt(s, a + n1) = ":"
           /\ n2 >= 1 /\ CharAt(s, b + n2) \in {"-", ":"}
           /\ n3 >= 1 /\ CharAt(s, c + n3) = ":"
           /\ n4 >= 1
        THEN << DigitsValue(SubSeq(s, a, a + n1 - 1)),
                DigitsValue(SubSeq(s, b, b + n2 - 1)),
                DigitsValue(SubSeq(s, c, c + n3 - 1)),
                DigitsValue(SubSeq(s, d, d + n4 - 1)) >>
        ELSE None

\* The tail \s+(\d+)[:](\d+)(?:[-:]?(\d+))? of single_chapter_pattern: chapter,
\* start verse and group 4 (0 when the optional group did not take part).
SingleTail(s, g1) ==
    LET sp == SpaceRun(s, g1 + 1)
        a  == g1 + 1 + sp
        n1 == DigitRun(s, a)
        b  == a + n1 + 1
        n2 == DigitRun(s, b)
        c  == b + n2 + 1
        n3 == IF CharAt(s, b + n2) \in {"-", ":"} THEN DigitRun(s, c) ELSE 0
    IN  IF /\ sp >= 1
           /\ n1 >= 1 /\ CharAt(s, a + n1) = ":"
           /\ n2 >= 1
        THEN << DigitsValue(SubSeq(s, a, a + n1 - 1)),
                DigitsValue(SubSeq(s, b, b + n2 - 1)),
                IF n3 >= 1 THEN SubSeq(s, c, c + n3 - 1) ELSE None >>
        ELSE None

\* re.match of a pattern ([0-9A-Za-z\s]+)<tail>: group 1 is greedy, so it ends
\* at the last position of the leading run of book characters after which the
\* tail matches.  0 when there is no match.
CrossGroup1End(s) ==
    LET ends == {g \in 1..BookRun(s, 1) : CrossTail(s, g) # None}
    IN  IF ends = {} THEN 0 ELSE CHOOSE g \in ends : \A h \in ends : h <= g

SingleGroup1End(s) ==
    LET ends == {g \in 1..BookRun(s, 1) : SingleTail(s, g) # None}
    IN  IF ends = {} THEN 0 ELSE CHOOSE g \in ends : \A h \in ends : h <= g

\* WisdomAlias without the alias
NoAlias(reference) == reference

\* reference.replace("Wisdom", "Wisdom of Solomon")
WisdomAlias(reference) ==
    Replace(reference, Chars("Wisdom"), Chars("Wisdom of Solomon"))

\* CleanReference that keeps the dots
DottedReference(reference) == Strip(reference)

\* reference.replace('.', ':'), stripped as the two re.match calls strip it
CleanReference(reference) == Strip(Replace(reference, <<".">>, <<":">>))

parse_reading_reference(reference0) ==
    LET reference1 == WisdomAlias(reference0)
        reference  == KingsRewrite(reference1)
        reference_clean == CleanReference(reference)
        cg == CrossGroup1End(reference_clean)
        sg == SingleGroup1End(reference_clean)
    IN  IF cg # 0
        THEN LET m == CrossTail(reference_clean, cg)
             IN  <<Strip(SubSeq(reference_clean, 1, cg)), m[1], m[2], m[3], m[4]>>
        ELSE IF sg # 0
        THEN LET m == SingleTail(reference_clean, sg)
                 end_verse == IF m[3] # None THEN DigitsValue(m[3]) ELSE m[2]
             IN  <<Strip(SubSeq(reference_clean, 1, sg)), m[1], m[2], m[1], end_verse>>
        ELSE None

(***************************************************************************)
(* Terminal colours                                                        *)
(***************************************************************************)

\* Colors: each ANSI escape sequence is one symbol of the output string.
RESET    == "ESC[0m"
GOLD     == "ESC[38;5;214m"
DEEP_RED == "ESC[38;5;88m"
PURPLE   == "ESC[38;5;91m"
CYAN     == "ESC[38;5;39m"
WHITE    == "ESC[38;5;255m"
GRAY     == "ESC[38;5;245m"

\* colorize_text, with the global no_color passed as nc
colorize_text(text, color, nc) ==
    IF nc THEN text ELSE <<color>> \o text \o <<RESET>>

(***************************************************************************)
(* Verse store: the JSON files under BIBLE_DIR.  A store is a function     *)
(* from the file names that exist to the parsed content of each file:      *)
(* [chapters |-> <<[chapter |-> n, verses |-> <<[verse |-> v, text |-> t]>>]>>]. *)
(***************************************************************************)

LowerPairs ==
    <<  <<"A", "a">>, <<"B", "b">>, <<"C", "c">>, <<"D", "d">>, <<"E", "e">>,
        <<"F", "f">>, <<"G", "g">>, <<"H", "h">>, <<"I", "i">>, <<"J", "j">>,
        <<"K", "k">>, <<"L", "l">>, <<"M", "m">>, <<"N", "n">>, <<"O", "o">>,
        <<"P", "p">>, <<"Q", "q">>, <<"R", "r">>, <<"S", "s">>, <<"T", "t">>,
        <<"U", "u">>, <<"V", "v">>, <<"W", "w">>, <<"X", "x">>, <<"Y", "y">>,
        <<"Z", "z">>  >>

LowerChar(c) ==
    IF \E i \in 1..26 : LowerPairs[i][1] = c
    THEN (CHOOSE e \in {LowerPairs[i] : i \in 1..26} : e[1] = c)[2]
    ELSE c

\* s.lower()
Lower(s) == [i \in 1..Len(s) |-> LowerChar(s[i])]

\* code_to_name[code] of the book's code, then the special cases: the name of
\* the book's JSON file without its extension.
JsonFilename(book) ==
    LET name == Replace(Replace(Lower(book), <<" ">>, <<"_">>), Chars("of_solomon"), <<>>)
    IN  IF \/ StartsWith(name, Chars("1_"))
           \/ StartsWith(name, Chars("2_"))
           \/ StartsWith(name, Chars("3_"))
        THEN Replace(name, <<"_">>, <<>>)
        ELSE IF Contains(name, Chars("wisdom")) THEN Chars("wisdom")
        ELSE IF Contains(name, Chars("song")) THEN Chars("songs")
        ELSE name

\* all_chapters.get(chapter_num): the dict comprehension keeps, for a chapter
\* number listed more than once, the last record.  None when absent.
\* AllChaptersGet that answers an absent chapter with a chapter without verses
AllChaptersGetOrEmpty(data, chapter_num) ==
    LET idx == {i \in 1..Len(data.chapters) : data.chapters[i].chapter = chapter_num}
    IN  IF idx = {} THEN [chapter |-> chapter_num, verses |-> <<>>]
        ELSE data.chapters[CHOOSE i \in idx : \A j \in idx : j <= i]

AllChaptersGet(data, chapter_num) ==
    LET idx == {i \in 1..Len(data.chapters) : data.chapters[i].chapter = chapter_num}
    IN  IF idx = {} THEN None
        ELSE data.chapters[CHOOSE i \in idx : \A j \in idx : j <= i]

\* An argument that was left at its default None where an int is expected.
NoneArg == -2

StrArg(n) == IF n = NoneArg THEN Chars("None") ELSE str(n)

(***************************************************************************)
(* get_bible_text                                                          *)
(***************************************************************************)

\* result_lines of one loop over a chapter's verses: the records whose number
\* lies in lo..hi, in the order of the store, each as "<number> <text>".
\* (TextAlone is the line without its number.)
TextAlone(verse_obj) == verse_obj.text

VerseLine(verse_obj) == StrArg(verse_obj.verse) \o <<" ">> \o verse_obj.text

\* LinesFrom with the start verse itself left out
LinesAfter(verses, start_verse) ==
    LET kept == SelectSeq(verses, LAMBDA v : v.verse > start_verse)
    IN  [i \in 1..Len(kept) |-> VerseLine(kept[i])]

LinesFrom(verses, start_verse) ==
    LET kept == SelectSeq(verses, LAMBDA v : v.verse >= start_verse)
    IN  [i \in 1..Len(kept) |-> VerseLine(kept[i])]

LinesUpTo(verses, end_verse) ==
    LET kept == SelectSeq(verses, LAMBDA v : v.verse <= end_verse)
    IN  [i \in 1..Len(kept) |-> VerseLine(kept[i])]

\* LinesBetween with the end verse itself left out
LinesBefore(verses, start_verse, end_verse) ==
    LET kept == SelectSeq(verses, LAMBDA v : start_verse <= v.verse /\ v.verse < end_verse)
    IN  [i \in 1..Len(kept) |-> VerseLine(kept[i])]

LinesBetween(verses, start_verse, end_verse) ==
    LET kept == SelectSeq(verses, LAMBDA v : start_verse <= v.verse /\ v.verse <= end_verse)
    IN  [i \in 1..Len(kept) |-> VerseLine(kept[i])]

LinesAll(verses) == [i \in 1..Len(verses) |-> VerseLine(verses[i])]

ChapterVerses(data, chapter_num) ==
    LET chapter_data == AllChaptersGet(data, chapter_num)
    IN  IF chapter_data = None THEN <<>> ELSE chapter_data.verses

\* The middle chapters start_chapter+1 .. end_chapter-1, all verses.
RECURSIVE MiddleLines(_, _, _)
MiddleLines(data, chapter_num, end_chapter) ==
    IF chapter_num >= end_chapter THEN <<>>
    ELSE LinesAll(ChapterVerses(data, chapter_num))
            \o MiddleLines(data, chapter_num + 1, end_chapter)

\* CrossChapterLines that gives up when a chapter of the span is absent
CrossChapterLinesOfFullSpan(data, start_chapter, start_verse, end_chapter, end_verse) ==
    IF \E c \in start_chapter..end_chapter : AllChaptersGet(data, c) = None
    THEN <<>>
    ELSE LinesFrom(ChapterVerses(data, start_chapter), start_verse)
            \o MiddleLines(data, start_chapter + 1, end_chapter)
            \o LinesUpTo(ChapterVerses(data, end_chapter), end_verse)

CrossChapterLines(data, start_chapter, start_verse, end_chapter, end_verse) ==
    LinesFrom(ChapterVerses(data, start_chapter), start_verse)
        \o MiddleLines(data, start_chapter + 1, end_chapter)
        \o LinesUpTo(ChapterVerses(data, end_chapter), end_verse)

\* What open() and json.load() make of a store file:
\*   [raises |-> e]   one of them raises an exception whose str() is e,
\*   [scalar |-> t]   a JSON value of the Python type t, not an object,
\*   another record   a JSON object, its keys the fields of the record;
\* the entries of "chapters" and of "verses" are objects or scalars likewise,
\* and a number that is null in the file is NoneArg.
IsRaise(value) == "raises" \in DOMAIN value

IsScalar(value) == "scalar" \in DOMAIN value

\* str(e) of the AttributeError of value.get on a value that is no dict
AttributeErrorText(type) ==
    <<"'">> \o type \o Chars("' object has no attribute 'get'")

\* str(e) of the TypeError of a comparison that involves None
TypeName(n) == IF n = NoneArg THEN Chars("NoneType") ELSE Chars("int")

CompareErrorText(op, left, right) ==
    <<"'">> \o op \o Chars("' not supported between instances of '") \o TypeName(left)
        \o Chars("' and '") \o TypeName(right) \o <<"'">>

\* The first of a sequence of outcomes that is an exception, None without.
FirstError(errors) ==
    LET idx == {i \in 1..Len(errors) : errors[i] # None}
    IN  IF idx = {} THEN None ELSE errors[CHOOSE i \in idx : \A j \in idx : i <= j]

\* The exception of loading the file and of building all_chapters, which
\* calls ch.get on every entry of "chapters".
LoadError(file) ==
    IF IsRaise(file) THEN file.raises
    ELSE IF IsScalar(file) THEN AttributeErrorText(file.scalar)
    ELSE IF "chapters" \notin DOMAIN file THEN None
    ELSE FirstError([i \in 1..Len(file.chapters) |->
                        IF IsScalar(file.chapters[i])
                        THEN AttributeErrorText(file.chapters[i].scalar) ELSE None])

\* The defaults of data.get("chapters", []), ch.get("chapter"),
\* chapter_data.get("verses", []), verse_obj.get("verse", 0) and
\* verse_obj.get("text", "") filled in; a verse entry that is no object is kept.
VerseWithDefaults(verse_obj) ==
    IF IsScalar(verse_obj) THEN verse_obj
    ELSE [verse |-> IF "verse" \in DOMAIN verse_obj THEN verse_obj.verse ELSE 0,
          text  |-> IF "text" \in DOMAIN verse_obj THEN verse_obj.text ELSE <<>>]

ChapterWithDefaults(ch) ==
    [chapter |-> IF "chapter" \in DOMAIN ch THEN ch.chapter ELSE NoneArg,
     verses  |-> IF "verses" \in DOMAIN ch
                 THEN [j \in 1..Len(ch.verses) |-> VerseWithDefaults(ch.verses[j])]
                 ELSE <<>>]

WithDefaults(file) ==
    [chapters |-> IF "chapters" \in DOMAIN file
                  THEN [i \in 1..Len(file.chapters) |-> ChapterWithDefaults(file.chapters[i])]
                  ELSE <<>>]

\* The exception that one pass of a loop over verses raises: verse_obj.get on
\* an entry that is no object, or the comparison of the loop when the verse
\* number or the end verse is None.  The loops are "first" (verse_num >=
\* start_verse), "middle" (no comparison), "last" (verse_num <= end_verse) and
\* "single" (start_verse <= verse_num <= end_verse).
VerseError(verse_obj, loop, start_verse, end_verse) ==
    IF IsScalar(verse_obj) THEN AttributeErrorText(verse_obj.scalar)
    ELSE IF loop = "first"
    THEN IF verse_obj.verse = NoneArg
         THEN CompareErrorText(Chars(">="), verse_obj.verse, start_verse) ELSE None
    ELSE IF loop = "last"
    THEN IF verse_obj.verse = NoneArg \/ end_verse = NoneArg
         THEN CompareErrorText(Chars("<="), verse_obj.verse, end_verse) ELSE None
    ELSE IF loop = "single"
    THEN IF verse_obj.verse = NoneArg
         THEN CompareErrorText(Chars("<="), start_verse, verse_obj.verse)
         ELSE IF start_verse <= verse_obj.verse /\ end_verse = NoneArg
         THEN CompareErrorText(Chars("<="), verse_obj.verse, end_verse)
         ELSE None
    ELSE None

LoopErrors(verses, loop, start_verse, end_verse) ==
    [i \in 1..Len(verses) |-> VerseError(verses[i], loop, start_verse, end_verse)]

RECURSIVE MiddleErrors(_, _, _)
MiddleErrors(data, chapter_num, end_chapter) ==
    IF chapter_num >= end_chapter THEN <<>>
    ELSE LoopErrors(ChapterVerses(data, chapter_num), "middle", 0, 0)
            \o MiddleErrors(data, chapter_num + 1, end_chapter)

\* The first exception of the loops over the verses, in the order in which
\* they visit the entries.
ReadError(data, start_chapter, start_verse, end_chapter, end_verse) ==
    IF end_chapter > start_chapter
    THEN FirstError(
            LoopErrors(ChapterVerses(data, start_chapter), "first", start_verse, end_verse)
                \o MiddleErrors(data, start_chapter + 1, end_chapter)
                \o LoopErrors(ChapterVerses(data, end_chapter), "last", start_verse, end_verse))
    ELSE FirstError(
            LoopErrors(ChapterVerses(data, start_chapter), "single", start_verse, end_verse))

\* Header that writes the span form for one chapter too
SpanHeader(book, start_chapter, start_verse, end_chapter, end_verse) ==
    IF end_chapter >= start_chapter
    THEN book \o <<" ">> \o str(start_chapter) \o <<":">> \o str(start_verse)
            \o <<"-">> \o str(end_chapter) \o <<":">> \o StrArg(end_verse)
    ELSE book \o <<" ">> \o str(start_chapter) \o <<":">> \o str(start_verse)
            \o (IF end_verse # start_verse THEN <<"-">> \o StrArg(end_verse) ELSE <<>>)

\* Header that writes the end verse of a point reference too
RangeHeader(book, start_chapter, start_verse, end_chapter, end_verse) ==
    IF end_chapter > start_chapter
    THEN book \o <<" ">> \o str(start_chapter) \o <<":">> \o str(start_verse)
            \o <<"-">> \o str(end_chapter) \o <<":">> \o StrArg(end_verse)
    ELSE book \o <<" ">> \o str(start_chapter) \o <<":">> \o str(start_verse)
            \o <<"-">> \o StrArg(end_verse)

Header(book, start_chapter, start_verse, end_chapter, end_verse) ==
    IF end_chapter > start_chapter
    THEN book \o <<" ">> \o str(start_chapter) \o <<":">> \o str(start_verse)
            \o <<"-">> \o str(end_chapter) \o <<":">> \o StrArg(end_verse)
    ELSE book \o <<" ">> \o str(start_chapter) \o <<":">> \o str(start_verse)
            \o (IF end_verse # start_verse THEN <<"-">> \o StrArg(end_verse) ELSE <<>>)

\* One verse line coloured: the number up to the first blank in cyan, the text
\* in white.
ColoredVerse(verse, nc) ==
    IF verse # <<>> /\ IsDigitChar(verse[1])
    THEN LET space_pos == Find(verse, <<" ">>)
         IN  IF space_pos > 1
             THEN colorize_text(SubSeq(verse, 1, space_pos - 1), CYAN, nc) \o <<" ">>
                    \o colorize_text(Drop(verse, space_pos + 1), WHITE, nc)
             ELSE colorize_text(verse, WHITE, nc)
    ELSE colorize_text(verse, WHITE, nc)

Passage(header, result_lines, nc) ==
    <<"\n">> \o colorize_text(header, GOLD, nc) \o <<"\n">>
        \o Join(<<"\n">>, [i \in 1..Len(result_lines) |-> ColoredVerse(result_lines[i], nc)])

\* (HeaderAlone is the header returned without a line under it.)
HeaderAlone(book, start_chapter, start_verse, end_chapter, end_verse, nc) ==
    Passage(Header(book, start_chapter, start_verse, end_chapter, end_verse), <<>>, nc)

VersesNotFound(book, start_chapter, start_verse, end_chapter, end_verse, nc) ==
    IF end_chapter > start_chapter
    THEN colorize_text(Chars("Verses ") \o str(start_chapter) \o <<":">> \o str(start_verse)
            \o <<"-">> \o str(end_chapter) \o <<":">> \o StrArg(end_verse)
            \o Chars(" not found in ") \o book \o <<".">>, GRAY, nc)
    ELSE colorize_text(Chars("Verses ") \o str(start_verse) \o <<"-">> \o StrArg(end_verse)
            \o Chars(" not found in ") \o book \o <<" ">> \o str(start_chapter) \o <<".">>,
            GRAY, nc)

\* except Exception as e: the error text in place of the passage.  (Uncaught
\* is the handler left out: the exception leaves the call without a return
\* value.)
Uncaught(book, start_chapter, start_verse, end_chapter, end_verse, e) == None

ErrorReading(book, start_chapter, start_verse, end_chapter, end_verse, e) ==
    IF end_chapter > start_chapter
    THEN Chars("Error reading ") \o book \o <<" ">> \o str(start_chapter) \o <<":">>
            \o str(start_verse) \o <<"-">> \o str(end_chapter) \o <<":">> \o StrArg(end_verse)
            \o Chars(": ") \o e
    ELSE Chars("Error reading ") \o book \o <<" ">> \o str(start_chapter) \o <<":">>
            \o str(start_verse) \o <<"-">> \o StrArg(end_verse) \o Chars(": ") \o e

\* The body of the try block once the file is loaded.
ReadPassage(book, start_chapter, start_verse, end_chapter, end_verse, data, nc) ==
    LET result_lines ==
            IF end_chapter > start_chapter
            THEN CrossChapterLines(data, start_chapter, start_verse, end_chapter, end_verse)
            ELSE LinesBetween(ChapterVerses(data, start_chapter), start_verse, end_verse)
        e == ReadError(data, start_chapter, start_verse, end_chapter, end_verse)
    IN  IF end_chapter <= start_chapter /\ AllChaptersGet(data, start_chapter) = None
        THEN Chars("Chapter ") \o str(start_chapter) \o Chars(" of ") \o book
                \o Chars(" not found.")
        ELSE IF e # None
        THEN ErrorReading(book, start_chapter, start_verse, end_chapter, end_verse, e)
        ELSE IF result_lines # <<>>
        THEN Passage(Header(book, start_chapter, start_verse, end_chapter, end_verse),
                     result_lines, nc)
        ELSE VersesNotFound(book, start_chapter, start_verse, end_chapter, end_verse, nc)

get_bible_text(book, start_chapter, start_verse, end_chapter0, end_verse0, files, nc) ==
    LET end_chapter == IF end_chapter0 = NoneArg THEN start_chapter ELSE end_chapter0
        end_verse   == IF end_chapter0 = NoneArg /\ end_verse0 = NoneArg
                       THEN start_verse ELSE end_verse0
        json_filename == JsonFilename(book)
    IN  IF BookCode(book) = None
        THEN Chars("Book '") \o book \o Chars("' not found.")
        ELSE IF json_filename \notin DOMAIN files
        THEN Chars("Book ") \o book \o Chars(" not found.")
        ELSE IF LoadError(files[json_filename]) # None
        THEN ErrorReading(book, start_chapter, start_verse, end_chapter, end_verse,
                          LoadError(files[json_filename]))
        ELSE With(WithDefaults(files[json_filename]), LAMBDA data :
                ReadPassage(book, start_chapter, start_verse, end_chapter, end_verse,
                            data, nc))

(***************************************************************************)
(* display_reading: the citation splitter                                  *)
(***************************************************************************)

\* The separator " • ": the bullet character is the one symbol "U+2022".
Bullet == <<" ", "U+2022", " ">>

\* [r.strip() for r in text.split(sep) if r.strip()]
StrippedPieces(text, sep) ==
    With(Split(text, sep), LAMBDA pieces :
        SelectSeq([i \in 1..Len(pieces) |-> Strip(pieces[i])], LAMBDA r : r # <<>>))

\* re.sub(r'^Composite \d+ -\s*', '', reading)
StripCompositePrefix(reading) ==
    With(DigitRun(reading, 11), LAMBDA n :
        IF /\ StartsWith(reading, Chars("Composite "))
           /\ n >= 1
           /\ StartsWithAt(reading, Chars(" -"), 11 + n)
        THEN Drop(reading, 11 + n + 2 + SpaceRun(reading, 11 + n + 2))
        ELSE reading)

\* The sub-readings of one semicolon part of a composite reading.
SemicolonSubParts(part) ==
    IF part # <<>> THEN StrippedPieces(part, Bullet) ELSE <<>>

\* clean_reading split by semicolons: the sub-readings of every part, in order.
SemicolonParts(clean_reading) ==
    With(Split(clean_reading, <<";">>), LAMBDA pieces :
        With([i \in 1..Len(pieces) |-> With(Strip(pieces[i]), SemicolonSubParts)],
             Flatten))

\* What one top-level reading adds to clean_readings.
CleanOne(reading) ==
    IF StartsWith(reading, Chars("Composite"))
    THEN With(StripCompositePrefix(reading), LAMBDA clean_reading :
            IF Contains(clean_reading, <<";">>)
            THEN SemicolonParts(clean_reading)
            ELSE StrippedPieces(clean_reading, Bullet))
    ELSE <<reading>>

\* CleanReadings without its final filter
UnfilteredReadings(readings_text) ==
    With(StrippedPieces(readings_text, Bullet), LAMBDA readings :
        With([i \in 1..Len(readings) |-> CleanOne(readings[i])], Flatten))

\* clean_readings of display_reading, after the final filter
CleanReadings(readings_text) ==
    With(StrippedPieces(readings_text, Bullet), LAMBDA readings :
        With([i \in 1..Len(readings) |-> CleanOne(readings[i])], LAMBDA cleaned :
            SelectSeq(Flatten(cleaned), LAMBDA r : r # <<>> /\ ~IsDigit(r))))

(***************************************************************************)
(* display_reading: the comma-joined series                                *)
(***************************************************************************)

\* What a try block yields when a ValueError was raised inside it.
Raised == <<>>

\* a, b = s.split(sep): the two pieces, or Raised when the split does not
\* give exactly two.
SplitTwo(s, sep) ==
    With(Split(s, sep), LAMBDA pieces : IF Len(pieces) # 2 THEN Raised ELSE pieces)

\* int() of both numbers of a pair of strings, or Raised.
IntPair(a, b) ==
    With(<<int(a), int(b)>>, LAMBDA pair :
        IF pair[1] = ValueError \/ pair[2] = ValueError THEN Raised ELSE pair)

\* The verse part "V" or "V1-V2" of a continuation: <<int(V1), int(V2)>>, or
\* Raised when the split or an int() raises ValueError.
VersePair(verse_part) ==
    IF Contains(verse_part, <<"-">>)
    THEN With(SplitTwo(verse_part, <<"-">>), LAMBDA two :
            IF two = Raised THEN Raised ELSE IntPair(two[1], two[2]))
    ELSE IntPair(verse_part, verse_part)

\* A part "C.V", "C.V1-V2", "C:V" or "C:V1-V2" that starts with a digit.
ChapterVersePart(part, current_book) ==
    With(SplitTwo(part, IF Contains(part, <<".">>) THEN <<".">> ELSE <<":">>), LAMBDA two :
        IF two = Raised THEN Raised
        ELSE With(<<int(two[1]), VersePair(two[2])>>, LAMBDA cv :
                IF cv[1] = ValueError \/ cv[2] = Raised THEN Raised
                ELSE <<current_book, cv[1], cv[2][1], cv[1], cv[2][2]>>))

FullReferencePart(part) ==
    With(parse_reading_reference(part), LAMBDA range_parsed :
        IF range_parsed # None
        THEN [ref |-> range_parsed]
        ELSE [err |-> Chars("Could not parse reading reference: ") \o part])

DigitLedPart(part, refs) ==
    IF refs # <<>>
    THEN With(ChapterVersePart(part, refs[1][1]), LAMBDA chapter_verse :
            IF chapter_verse = Raised
            THEN [err |-> Chars("Could not parse chapter.verse reference: ") \o part]
            ELSE [ref |-> chapter_verse])
    ELSE [err |-> Chars("Could not determine book for reference: ") \o part]

\* BareVersePart with the book and the end chapter of the element before
BareVersePartAfterLast(part, refs) ==
    IF refs # <<>>
    THEN With(VersePair(part), LAMBDA verses :
            IF verses = Raised
            THEN [err |-> IF Contains(part, <<"-">>)
                          THEN Chars("Could not parse verse range: ") \o part
                          ELSE Chars("Could not parse verse: ") \o part]
            ELSE [ref |-> <<refs[Len(refs)][1], refs[Len(refs)][4], verses[1],
                            refs[Len(refs)][4], verses[2]>>])
    ELSE [err |-> Chars("Could not determine book for verse range: ") \o part]

BareVersePart(part, refs) ==
    IF refs # <<>>
    THEN With(VersePair(part), LAMBDA verses :
            IF verses = Raised
            THEN [err |-> IF Contains(part, <<"-">>)
                          THEN Chars("Could not parse verse range: ") \o part
                          ELSE Chars("Could not parse verse: ") \o part]
            ELSE [ref |-> <<refs[1][1], refs[1][2], verses[1], refs[1][2], verses[2]>>])
    ELSE [err |-> Chars("Could not determine book for verse range: ") \o part]

\* One iteration of the loop over the comma parts: the reference the part
\* appends to parsed_references, or the error the iteration prints before
\* display_reading returns.
ParsePart(part, refs) ==
    IF Contains(part, <<":">>) \/ Contains(part, <<".">>)
    THEN IF IsDigitChar(part[1])
         THEN DigitLedPart(part, refs)
         ELSE FullReferencePart(part)
    ELSE BareVersePart(part, refs)

\* The loop over the parts from part i on: parsed_references when every part
\* parsed, and the error message of the first part that did not otherwise.
RECURSIVE ParseParts(_, _, _)
ParseParts(parts, i, refs) ==
    IF i > Len(parts) THEN [refs |-> refs, err |-> None]
    ELSE With(ParsePart(parts[i], refs), LAMBDA r :
            IF "err" \in DOMAIN r THEN [refs |-> refs, err |-> r.err]
            ELSE With(Append(refs, r.ref), LAMBDA appended :
                    ParseParts(parts, i + 1, appended)))

\* The parts of a comma-joined reading: [p.strip() for p in reading_ref.split(',')]
CommaParts(reading_ref) ==
    With(Split(reading_ref, <<",">>), LAMBDA pieces :
        [i \in 1..Len(pieces) |-> Strip(pieces[i])])

\* parsed_references as display_reading has it when it stops parsing
ParsedReferences(reading_ref) ==
    IF Contains(reading_ref, <<",">>)
    THEN With(CommaParts(reading_ref), LAMBDA parts : ParseParts(parts, 1, <<>>))
    ELSE With(parse_reading_reference(reading_ref), LAMBDA parsed :
            IF parsed # None
            THEN [refs |-> <<parsed>>, err |-> None]
            ELSE [refs |-> <<>>,
                  err |-> Chars("Could not parse reading reference: ") \o reading_ref])

\* PrintPassages that stops at the first book that is not in the registry
PrintPassagesOfKnownBooks(refs, store, nc) ==
    LET unknown == {i \in 1..Len(refs) : BookCode(refs[i][1]) = None}
        last == IF unknown = {} THEN Len(refs)
                ELSE CHOOSE i \in unknown : \A j \in unknown : i <= j
    IN  [i \in 1..last |->
            get_bible_text(refs[i][1], refs[i][2], refs[i][3], refs[i][4], refs[i][5],
                           store, nc)]

\* print(get_bible_text(...)) of every reference, in the order of the list
PrintPassages(refs, store, nc) ==
    [i \in 1..Len(refs) |->
        get_bible_text(refs[i][1], refs[i][2], refs[i][3], refs[i][4], refs[i][5], store, nc)]

\* The listing printed when the reading number is out of range.
AvailableReadings(readings, reading_number, nc) ==
    << colorize_text(Chars("Reading number ") \o str(reading_number)
            \o Chars(" not found. There are ") \o str(Len(readings))
            \o Chars(" readings today."), DEEP_RED, nc),
       colorize_text(Chars("Available readings:"), CYAN, nc) >>
    \o [i \in 1..Len(readings) |->
            Chars("  ") \o colorize_text(str(i), GOLD, nc) \o Chars(". ")
                \o colorize_text(readings[i], PURPLE, nc)]

\* What display_reading prints once the reading is selected.
PrintReading(reading_ref, store, nc) ==
    With(ParsedReferences(reading_ref), LAMBDA parsed :
        [parsed_references |-> parsed.refs,
         stdout |-> IF parsed.err # None
                    THEN <<colorize_text(parsed.err, DEEP_RED, nc)>>
                    ELSE PrintPassages(parsed.refs, store, nc)])

\* display_reading(reading_number) for a calendar entry whose [Readings]:
\* field is readings_text: the lists it builds and what it prints.
display_reading(readings_text, reading_number, store, nc) ==
    IF readings_text = <<>>
    THEN [clean_readings |-> <<>>, parsed_references |-> <<>>,
          stdout |-> <<colorize_text(Chars("No readings for today."), GRAY, nc)>>]
    ELSE With(CleanReadings(readings_text), LAMBDA readings :
            IF reading_number - 1 < 0 \/ reading_number - 1 >= Len(readings)
            THEN [clean_readings |-> readings, parsed_references |-> <<>>,
                  stdout |-> AvailableReadings(readings, reading_number, nc)]
            ELSE With(PrintReading(readings[reading_number], store, nc), LAMBDA printed :
                    [clean_readings |-> readings,
                     parsed_references |-> printed.parsed_references,
                     stdout |-> printed.stdout]))

(***************************************************************************)
(* The --bible command: parse_bible_reference, get_last_verse_in_chapter,  *)
(* list_chapters and handle_bible_command.  The tuple that                 *)
(* parse_bible_reference returns is the record [book, chapter,             *)
(* start_verse, end_verse], a number that is None being NoneArg; an        *)
(* exception that leaves a function is the record [raises |-> str(e)].     *)
(***************************************************************************)

BibleReference(book, chapter, start_verse, end_verse) ==
    [book |-> book, chapter |-> chapter, start_verse |-> start_verse, end_verse |-> end_verse]

\* return None, None, None, None
NoReference == BibleReference(None, NoneArg, NoneArg, NoneArg)

\* The branch of a reference with a colon: chapter_part, verse_part =
\* reference.split(':'), then the verse or the two verses of a range; a
\* ValueError of an unpacking or of int() gives NoReference.
ChapterAndVerses(book, reference) ==
    With(SplitTwo(reference, <<":">>), LAMBDA pieces :
        IF pieces = Raised \/ int(pieces[1]) = ValueError THEN NoReference
        ELSE IF Contains(pieces[2], <<"-">>)
        THEN With(SplitTwo(pieces[2], <<"-">>), LAMBDA verses :
                IF verses = Raised \/ int(verses[1]) = ValueError
                                   \/ int(verses[2]) = ValueError
                THEN NoReference
                ELSE BibleReference(book, int(pieces[1]), int(verses[1]), int(verses[2])))
        ELSE IF int(pieces[2]) = ValueError THEN NoReference
        ELSE BibleReference(book, int(pieces[1]), int(pieces[2]), int(pieces[2])))

\* The branch without colon or dot: chapter = int(remaining_args[-1]), which
\* raises IndexError when no token is left after the book.
ChapterOnly(book, remaining_args) ==
    IF remaining_args = <<>> THEN [raises |-> Chars("list index out of range")]
    ELSE IF int(remaining_args[Len(remaining_args)]) = ValueError THEN NoReference
    ELSE BibleReference(book, int(remaining_args[Len(remaining_args)]), NoneArg, NoneArg)

\* The number of leading tokens, three at most and the longest first, that
\* spell a key of BOOK_CODES; 0 when none does.
BookTokens(tokens) ==
    LET found == {i \in 1..(IF Len(tokens) < 3 THEN Len(tokens) ELSE 3) :
                    Join(<<" ">>, SubSeq(tokens, 1, i)) \in BookNames}
    IN  IF found = {} THEN 0 ELSE CHOOSE i \in found : \A j \in found : j <= i

parse_bible_reference(tokens) ==
    IF tokens = <<>> THEN NoReference
    ELSE IF Len(tokens) = 1 THEN BibleReference(tokens[1], NoneArg, NoneArg, NoneArg)
    ELSE IF Len(tokens) = 2
    THEN IF Join(<<" ">>, tokens) \in BookNames
         THEN BibleReference(Join(<<" ">>, tokens), NoneArg, NoneArg, NoneArg)
         ELSE IF Contains(tokens[2], <<":">>) THEN ChapterAndVerses(tokens[1], tokens[2])
         ELSE ChapterOnly(tokens[1], <<tokens[2]>>)
    ELSE With(BookTokens(tokens), LAMBDA n :
            LET book == IF n > 0 THEN Join(<<" ">>, SubSeq(tokens, 1, n)) ELSE tokens[1]
                remaining_args == SubSeq(tokens, (IF n > 0 THEN n ELSE 1) + 1, Len(tokens))
                reference == Join(<<" ">>, remaining_args)
            IN  IF Contains(reference, <<":">>) THEN ChapterAndVerses(book, reference)
                ELSE IF Contains(reference, <<".">>)
                THEN ChapterAndVerses(book, Replace(reference, <<".">>, <<":">>))
                ELSE ChapterOnly(book, remaining_args))

\* the key of BOOK_CODES that has the code
BookOfCode(book_code) ==
    (CHOOSE e \in {BOOK_CODES[i] : i \in 1..Len(BOOK_CODES)} : e[2] = book_code)[1]

\* The loop over data.get("chapters", []) from entry i on: the number of the
\* last verse entry of the first entry of the chapter that has verses, 0 when
\* there is none or when an entry that is no object raises.
RECURSIVE LastVerseFrom(_, _, _)
LastVerseFrom(chapters, i, chapter) ==
    IF i > Len(chapters) THEN 0
    ELSE IF IsScalar(chapters[i]) THEN 0
    ELSE With(ChapterWithDefaults(chapters[i]), LAMBDA chapter_data :
            IF chapter_data.chapter = chapter /\ chapter_data.verses # <<>>
            THEN IF IsScalar(chapter_data.verses[Len(chapter_data.verses)]) THEN 0
                 ELSE chapter_data.verses[Len(chapter_data.verses)].verse
            ELSE LastVerseFrom(chapters, i + 1, chapter))

get_last_verse_in_chapter(book_code, chapter, files) ==
    LET json_filename == JsonFilename(BookOfCode(book_code))
    IN  IF json_filename \notin DOMAIN files THEN 0
        ELSE IF IsRaise(files[json_filename]) \/ IsScalar(files[json_filename]) THEN 0
        ELSE IF "chapters" \notin DOMAIN files[json_filename] THEN 0
        ELSE LastVerseFrom(files[json_filename].chapters, 1, chapter)

\* The rows of ten chapter numbers, each number in cyan.
RECURSIVE ChapterRows(_, _)
ChapterRows(chapters, nc) ==
    IF chapters = <<>> THEN <<>>
    ELSE LET row_chapters == SubSeq(chapters, 1, IF Len(chapters) < 10 THEN Len(chapters) ELSE 10)
         IN  <<Chars("  ") \o Join(Chars("  "),
                    [k \in 1..Len(row_chapters) |-> colorize_text(str(row_chapters[k]), CYAN, nc)])>>
                \o ChapterRows(SubSeq(chapters, Len(row_chapters) + 1, Len(chapters)), nc)

\* What list_chapters prints, one element for each print.
list_chapters(book_name, files, nc) ==
    IF BookCode(book_name) = None
    THEN << colorize_text(Chars("Book '") \o book_name \o Chars("' not found."), DEEP_RED, nc),
            colorize_text(Chars("Use --bible to see available books."), GRAY, nc) >>
    ELSE IF JsonFilename(book_name) \notin DOMAIN files
    THEN << colorize_text(Chars("Book file for ") \o book_name \o Chars(" not found."),
                          DEEP_RED, nc) >>
    ELSE IF LoadError(files[JsonFilename(book_name)]) # None
    THEN << colorize_text(Chars("Error reading ") \o book_name \o Chars(": ")
                            \o LoadError(files[JsonFilename(book_name)]), DEEP_RED, nc) >>
    ELSE LET data == WithDefaults(files[JsonFilename(book_name)])
             listed == SelectSeq(data.chapters, LAMBDA ch : ch.chapter \notin {NoneArg, 0})
             chapters == [k \in 1..Len(listed) |-> listed[k].chapter]
         IN  IF chapters # <<>>
             THEN << colorize_text(Chars("Available chapters in ") \o book_name \o <<":">>,
                                   GOLD, nc),
                     <<>> >>
                    \o ChapterRows(chapters, nc)
                    \o << Chars("\nTotal chapters: ") \o str(Len(chapters)),
                          colorize_text(Chars("Example usage: --bible ") \o book_name \o <<" ">>
                                \o str(chapters[1]) \o Chars(" or --bible ") \o book_name
                                \o <<" ">> \o str(chapters[1]) \o Chars(":1"), GRAY, nc) >>
             ELSE << colorize_text(Chars("No chapters found for ") \o book_name \o <<".">>,
                                   DEEP_RED, nc) >>

\* The test for a cross-chapter range: the second token holds a dash and a
\* colon, the dash is not its first character and a colon follows the dash.
LooksCrossChapter(tokens) ==
    /\ Len(tokens) >= 2
    /\ Contains(tokens[2], <<"-">>) /\ Contains(tokens[2], <<":">>)
    /\ Find(tokens[2], <<"-">>) > 1
    /\ Contains(Drop(tokens[2], Find(tokens[2], <<"-">>) + 1), <<":">>)

InvalidFormat(nc) ==
    << colorize_text(Chars("Invalid Bible reference format."), DEEP_RED, nc),
       colorize_text(Chars("Examples:"), GRAY, nc),
       Chars("  --bible                           # List all books"),
       Chars("  --bible John                       # List John's chapters"),
       Chars("  --bible John 3                     # Show John chapter 3"),
       Chars("  --bible John 3:16                  # Show John 3:16"),
       Chars("  --bible John 3:16-17               # Show John 3:16-17") >>

\* A whole chapter: verse 1 to the last verse, or verse 1 alone when
\* get_last_verse_in_chapter gives 0.
WholeChapter(book, chapter, files, nc) ==
    IF BookCode(book) # None
    THEN With(get_last_verse_in_chapter(BookCode(book), chapter, files), LAMBDA last_verse :
            IF last_verse = NoneArg
            THEN [stdout |-> <<>>,
                  raises |-> CompareErrorText(<<">">>, last_verse, 0)]
            ELSE [stdout |-> <<get_bible_text(book, chapter, 1, chapter,
                                              IF last_verse > 0 THEN last_verse ELSE 1,
                                              files, nc)>>,
                  raises |-> None])
    ELSE [stdout |-> <<colorize_text(Chars("Book '") \o book \o Chars("' not found."),
                                     DEEP_RED, nc)>>,
          raises |-> None]

\* The part of handle_bible_command after the test for a cross-chapter range.
ShowReference(parsed, files, nc) ==
    IF IsRaise(parsed) THEN [stdout |-> <<>>, raises |-> parsed.raises]
    ELSE IF parsed.book # <<>> /\ parsed.chapter = NoneArg
    THEN [stdout |-> list_chapters(parsed.book, files, nc), raises |-> None]
    ELSE IF parsed.book # <<>>
    THEN IF parsed.start_verse = NoneArg
         THEN WholeChapter(parsed.book, parsed.chapter, files, nc)
         ELSE [stdout |-> <<get_bible_text(parsed.book, parsed.chapter, parsed.start_verse,
                                           parsed.chapter, parsed.end_verse, files, nc)>>,
               raises |-> None]
    ELSE [stdout |-> InvalidFormat(nc), raises |-> None]

\* handle_bible_command(args) for a list of tokens that is not empty (the
\* empty list prints the table of list_bible_books): what it prints, one
\* element for each print, and the exception that leaves it, None without.
handle_bible_command(tokens, files, nc) ==
    With(IF LooksCrossChapter(tokens)
         THEN parse_reading_reference(Join(<<" ">>, tokens)) ELSE None, LAMBDA parsed :
        IF parsed # None
        THEN [stdout |-> <<get_bible_text(parsed[1], parsed[2], parsed[3], parsed[4],
                                          parsed[5], files, nc)>>,
              raises |-> None]
        ELSE With(parse_bible_reference(tokens), LAMBDA reference :
                ShowReference(reference, files, nc)))

(***************************************************************************)
(* The --random-verse command: get_random_verse and handle_random_verse.   *)
(* random.choice is a choice among the elements of its list, so            *)
(* get_random_verse is the set of the tuples it can return, each the       *)
(* record [book_name, chapter, verse, end_verse, error].                   *)
(***************************************************************************)

RandomVerse(book_name, chapter, verse) ==
    [book_name |-> book_name, chapter |-> chapter, verse |-> verse, end_verse |-> verse,
     error |-> None]

\* return None, None, None, None, error
RandomError(error) ==
    [book_name |-> None, chapter |-> NoneArg, verse |-> NoneArg, end_verse |-> NoneArg,
     error |-> error]

\* available_codes: the codes of the books of BOOK_CODES whose file is there
AvailableCodes(files) ==
    {BookCode(name) : name \in {n \in BookNames : JsonFilename(n) \in DOMAIN files}}

\* all_verses of one entry of "chapters": (chapter_num, verse_num) of every
\* verse entry, the defaults of .get being 0; an entry that is no object
\* raises AttributeError.
ChapterAllVerses(chapter_data) ==
    IF IsScalar(chapter_data) THEN <<[raises |-> AttributeErrorText(chapter_data.scalar)]>>
    ELSE IF "verses" \notin DOMAIN chapter_data THEN <<>>
    ELSE [j \in 1..Len(chapter_data.verses) |->
            IF IsScalar(chapter_data.verses[j])
            THEN [raises |-> AttributeErrorText(chapter_data.verses[j].scalar)]
            ELSE [chapter |-> IF "chapter" \in DOMAIN chapter_data
                              THEN chapter_data.chapter ELSE 0,
                  verse   |-> IF "verse" \in DOMAIN chapter_data.verses[j]
                              THEN chapter_data.verses[j].verse ELSE 0]]

\* all_verses of the file, in the order of the loops
AllVerses(file) ==
    IF "chapters" \notin DOMAIN file THEN <<>>
    ELSE Flatten([i \in 1..Len(file.chapters) |-> ChapterAllVerses(file.chapters[i])])

\* The try block for the book picked: one tuple for each element of
\* all_verses, or the one error tuple.
RandomVersesOf(book_name, file) ==
    IF IsRaise(file)
    THEN {RandomError(Chars("Error reading ") \o book_name \o Chars(": ") \o file.raises)}
    ELSE IF IsScalar(file)
    THEN {RandomError(Chars("Error reading ") \o book_name \o Chars(": ")
                        \o AttributeErrorText(file.scalar))}
    ELSE With(AllVerses(file), LAMBDA all_verses :
            LET raised == {i \in 1..Len(all_verses) : IsRaise(all_verses[i])}
            IN  IF raised # {}
                THEN {RandomError(Chars("Error reading ") \o book_name \o Chars(": ")
                        \o all_verses[CHOOSE i \in raised : \A j \in raised : i <= j].raises)}
                ELSE IF all_verses = <<>>
                THEN {RandomError(Chars("No verses found in ") \o book_name \o <<".">>)}
                ELSE {RandomVerse(book_name, all_verses[i].chapter, all_verses[i].verse) :
                        i \in 1..Len(all_verses)})

\* book_name is None (the empty string) when no book is asked for
get_random_verse(book_name, files) ==
    IF book_name # None /\ (BookCode(book_name) = None
                            \/ BookCode(book_name) \notin AvailableCodes(files))
    THEN {RandomError(Chars("Book '") \o book_name \o Chars("' not found."))}
    ELSE IF book_name = None /\ AvailableCodes(files) = {}
    THEN {RandomError(Chars("No Bible books available."))}
    ELSE UNION {RandomVersesOf(BookOfCode(book_code), files[JsonFilename(BookOfCode(book_code))]) :
                    book_code \in IF book_name # None THEN {BookCode(book_name)}
                                  ELSE AvailableCodes(files)}

\* What handle_random_verse prints for the tuple get_random_verse returned:
\* the error in red, or get_bible_text(book_name, chapter, verse, end_verse),
\* whose fourth parameter is end_chapter and whose end_verse stays None.
handle_random_verse(chosen, files, nc) ==
    IF chosen.error # None
    THEN <<colorize_text(chosen.error, DEEP_RED, nc)>>
    ELSE <<get_bible_text(chosen.book_name, chosen.chapter, chosen.verse, chosen.end_verse,
                          NoneArg, files, nc)>>

(***************************************************************************)
(* The daily display: wrap_readings numbers the day's readings.            *)
(***************************************************************************)

WRAP_WIDTH == 60

\* regex \w
IsWordChar(c) == IsAlphaChar(c) \/ IsDigitChar(c) \/ c = "_"

\* regex [\w!"'&.,?]
IsWordPunct(c) == IsWordChar(c) \/ c \in {"!", "\"", "'", "&", ".", ",", "?"}

\* regex [^\d\W]
IsLetter(c) == IsAlphaChar(c) \/ c = "_"

RECURSIVE HyphenRun(_, _)
HyphenRun(s, at) ==
    IF at <= Len(s) /\ s[at] = "-" THEN 1 + HyphenRun(s, at + 1) ELSE 0

\* textwrap's wordsep_re, second alternative: the length of a run of two or
\* more hyphens at `at` that stands between two words, 0 without one.
EmDash(s, at) ==
    With(HyphenRun(s, at), LAMBDA n :
        IF n >= 2 /\ IsWordPunct(CharAt(s, at - 1)) /\ IsWordChar(CharAt(s, at + n))
        THEN n ELSE 0)

\* wordsep_re, third alternative: a word may end at k after a hyphen that
\* stands between letters, before whitespace or the end, or before an em-dash.
HyphenBreak(s, at, k) ==
    /\ k > at
    /\ s[k] = "-"
    /\ \/ IsLetter(CharAt(s, k - 1)) /\ IsLetter(CharAt(s, k - 2))
       \/ IsLetter(CharAt(s, k - 1)) /\ CharAt(s, k - 2) = "-" /\ IsLetter(CharAt(s, k - 3))
    /\ IsLetter(CharAt(s, k + 1))
    /\ \/ IsLetter(CharAt(s, k + 2))
       \/ CharAt(s, k + 2) = "-" /\ IsLetter(CharAt(s, k + 3))

WordBreak(s, at, k) ==
    \/ HyphenBreak(s, at, k)
    \/ k = Len(s)
    \/ IsSpaceChar(CharAt(s, k + 1))
    \/ /\ IsWordPunct(s[k])
       /\ HyphenRun(s, k + 1) >= 2
       /\ IsWordChar(CharAt(s, k + 1 + HyphenRun(s, k + 1)))

RECURSIVE WordEnd(_, _, _)
WordEnd(s, at, k) == IF WordBreak(s, at, k) THEN k ELSE WordEnd(s, at, k + 1)

\* the last index of the chunk of s that starts at `at`
ChunkEnd(s, at) ==
    IF IsSpaceChar(s[at]) THEN at + SpaceRun(s, at) - 1
    ELSE IF EmDash(s, at) > 0 THEN at + EmDash(s, at) - 1
    ELSE WordEnd(s, at, at)

\* TextWrapper._split: the indivisible chunks of the text, in order
RECURSIVE SplitChunks(_, _)
SplitChunks(s, at) ==
    IF at > Len(s) THEN <<>>
    ELSE With(ChunkEnd(s, at), LAMBDA end :
            <<SubSeq(s, at, end)>> \o SplitChunks(s, end + 1))

\* s.strip() == ''
IsBlank(s) == \A i \in 1..Len(s) : IsSpaceChar(s[i])

\* how many leading chunks fit into `width` columns after `cur_len` columns
RECURSIVE FittingChunks(_, _, _)
FittingChunks(chunks, cur_len, width) ==
    IF chunks # <<>> /\ cur_len + Len(chunks[1]) <= width
    THEN 1 + FittingChunks(Tail(chunks), cur_len + Len(chunks[1]), width)
    ELSE 0

\* chunk.rfind('-', 0, space_left), 0-based, -1 without a hyphen
RECURSIVE RFindHyphen(_, _)
RFindHyphen(chunk, space_left) ==
    IF space_left <= 0 THEN 0 - 1
    ELSE IF space_left <= Len(chunk) /\ chunk[space_left] = "-" THEN space_left - 1
    ELSE RFindHyphen(chunk, space_left - 1)

\* TextWrapper._handle_long_word: where a chunk too long for any line is cut
LongWordCut(chunk, space_left) ==
    With(RFindHyphen(chunk, space_left), LAMBDA hyphen :
        IF /\ Len(chunk) > space_left
           /\ hyphen > 0
           /\ \E i \in 1..hyphen : chunk[i] # "-"
        THEN hyphen + 1 ELSE space_left)

\* a line without the whitespace (or the empty piece) that ends it
DropTrailingBlank(cur_line) ==
    IF cur_line # <<>> /\ IsBlank(cur_line[Len(cur_line)])
    THEN SubSeq(cur_line, 1, Len(cur_line) - 1) ELSE cur_line

\* TextWrapper._wrap_chunks with an empty initial indent
RECURSIVE WrapChunks(_, _, _, _)
WrapChunks(chunks0, lines, width0, subsequent_indent) ==
    IF chunks0 = <<>> THEN lines
    ELSE
    LET indent == IF lines # <<>> THEN subsequent_indent ELSE <<>>
        width  == width0 - Len(indent)
        chunks == IF IsBlank(chunks0[1]) /\ lines # <<>> THEN Tail(chunks0) ELSE chunks0
        n      == FittingChunks(chunks, 0, width)
        fitted == SubSeq(chunks, 1, n)
        cur_len == Len(Flatten(fitted))
        rest   == SubSeq(chunks, n + 1, Len(chunks))
        long   == rest # <<>> /\ Len(rest[1]) > width
        space_left == IF width < 1 THEN 1 ELSE width - cur_len
        end    == IF long THEN LongWordCut(rest[1], space_left) ELSE 0
        cur_line == DropTrailingBlank(
                        IF long THEN Append(fitted, SubSeq(rest[1], 1, end)) ELSE fitted)
        left   == IF long THEN <<Drop(rest[1], end + 1)>> \o Tail(rest) ELSE rest
    IN  WrapChunks(left,
                   IF cur_line # <<>>
                   THEN Append(lines, indent \o Flatten(cur_line)) ELSE lines,
                   width0, subsequent_indent)

\* textwrap.wrap(text, width=width, subsequent_indent=subsequent_indent)
TextWrap(text, width, subsequent_indent) ==
    WrapChunks(SplitChunks(text, 1), <<>>, width, subsequent_indent)

\* f"[{i}] {reading}"
NumberedReading(i, reading) == <<"[">> \o str(i) \o Chars("] ") \o reading

\* the lines of one numbered reading: the first one indented by two blanks,
\* the continuation lines by textwrap's subsequent indent
NumberedLines(i, reading, width) ==
    With(TextWrap(NumberedReading(i, reading), width - 2, Chars("  ")), LAMBDA wrapped :
        [j \in 1..Len(wrapped) |-> IF j = 1 THEN Chars("  ") \o wrapped[j] ELSE wrapped[j]])

\* clean_readings of wrap_readings after the Kings rewrite
RewrittenReadings(text) ==
    With(UnfilteredReadings(text), LAMBDA cleaned :
        [i \in 1..Len(cleaned) |-> KingsRewrite(cleaned[i])])

\* clean_readings of wrap_readings: rewritten for display, then filtered
\* (DisplayedUnfiltered keeps the empty and the all-digit entries).
DisplayedUnfiltered(text) == RewrittenReadings(text)
DisplayedReadings(text) ==
    SelectSeq(RewrittenReadings(text), LAMBDA r : r # <<>> /\ ~IsDigit(r))

wrap_readings(text, width) ==
    With(DisplayedReadings(text), LAMBDA readings :
        With(Flatten([i \in 1..Len(readings) |-> NumberedLines(i, readings[i], width)]),
             LAMBDA lines : IF lines # <<>> THEN lines ELSE <<<<>>>>))

(***************************************************************************)
(* Bounds and the inputs drawn from them                                   *)
(***************************************************************************)

MaxChapter == 3     \* chapters 1..MaxChapter in stores and resolved references
MaxVerse   == 3     \* verses 1..MaxVerse in stores and resolved references
MaxNumber  == 2     \* citations are written with the numbers 1..MaxNumber ...
TwoDigits  == 13    \* ... and with one number of two digits
MaxSegments == 3    \* segments of a generated [Readings]: field
MaxParts   == 3     \* comma parts of a generated series
MaxReading == 2     \* reading numbers 1..MaxReading

\* All sequences over S of length lo..hi
SeqsOf(S, lo, hi) == UNION {[1..n -> S] : n \in lo..hi}

\* ---- verse stores ----

VerseText(c, v) == <<"t">> \o str(c) \o <<" ">> \o str(v)

VerseRecord(c, v) == [verse |-> v, text |-> VerseText(c, v)]

FullVerses(c) == [v \in 1..MaxVerse |-> VerseRecord(c, v)]

FullChapter(c) == [chapter |-> c, verses |-> FullVerses(c)]

\* every chapter 1..MaxChapter with every verse 1..MaxVerse
FullData == [chapters |-> [c \in 1..MaxChapter |-> FullChapter(c)]]

\* FullData with chapter c replaced by the chapter records cs
WithChapter(c, cs) ==
    [chapters |-> [i \in 1..(c - 1) |-> FullChapter(i)] \o cs
                    \o [i \in 1..(MaxChapter - c) |-> FullChapter(c + i)]]

\* verse v of chapter c is missing
MissingVerse(c, v) ==
    WithChapter(c, <<[chapter |-> c,
                      verses |-> SelectSeq(FullVerses(c), LAMBDA r : r.verse # v)]>>)

\* chapter c is missing
MissingChapter(c) == WithChapter(c, <<>>)

\* chapter c has no verse
EmptyChapter(c) == WithChapter(c, <<[chapter |-> c, verses |-> <<>>]>>)

\* chapter c lists its verses in descending order
ReversedChapter(c) ==
    WithChapter(c, <<[chapter |-> c,
                      verses |-> [i \in 1..MaxVerse |-> VerseRecord(c, MaxVerse + 1 - i)]]>>)

\* chapter c is listed twice, the second record holding verse 1 alone
DuplicateChapter(c) ==
    WithChapter(c, <<FullChapter(c), [chapter |-> c, verses |-> <<VerseRecord(c, 1)>>]>>)

StoreData ==
    {FullData}
        \cup {MissingVerse(c, v) : c \in 1..MaxChapter, v \in 1..MaxVerse}
        \cup {MissingChapter(c) : c \in 1..MaxChapter}
        \cup {EmptyChapter(c) : c \in 1..MaxChapter}
        \cup {ReversedChapter(c) : c \in 1..MaxChapter}
        \cup {DuplicateChapter(c) : c \in 1..MaxChapter}

\* ---- store files that are not what the program expects ----

\* the file cannot be read, or is no JSON
Unreadable == [raises |-> Chars("[Errno 13] Permission denied: 'genesis.json'")]

NotJson == [raises |-> Chars("Expecting value: line 1 column 1 (char 0)")]

\* the file holds a JSON list, or an object without "chapters"
TopLevelList == [scalar |-> Chars("list")]

NoChapters == [version |-> 1]

\* the entry of chapter c is a number, or lacks "verses", or lacks "chapter"
ScalarChapter(c) == WithChapter(c, <<[scalar |-> Chars("int")]>>)

NoVerses(c) == WithChapter(c, <<[chapter |-> c]>>)

NoChapterNumber(c) == WithChapter(c, <<[verses |-> FullVerses(c)]>>)

\* FullData with the entry of verse v of chapter c replaced by entry
WithVerse(c, v, entry) ==
    WithChapter(c, <<[chapter |-> c,
                      verses |-> [i \in 1..MaxVerse |->
                                    IF i = v THEN entry ELSE VerseRecord(c, i)]]>>)

\* a verse entry without "verse", without "text", with a null "verse", and
\* one that is a number
BadVerseEntries(c, v) ==
    { [text |-> VerseText(c, v)], [verse |-> v],
      [verse |-> NoneArg, text |-> VerseText(c, v)], [scalar |-> Chars("int")] }

MalformedData ==
    {Unreadable, NotJson, TopLevelList, NoChapters}
        \cup {ScalarChapter(c) : c \in 1..MaxChapter}
        \cup {NoVerses(c) : c \in 1..MaxChapter}
        \cup {NoChapterNumber(c) : c \in 1..MaxChapter}
        \cup UNION {{WithVerse(c, v, entry) : entry \in BadVerseEntries(c, v)} :
                        c \in 1..MaxChapter, v \in 1..MaxVerse}

\* The book whose file holds the generated data, a registry book without a
\* file, and a name that is no registry key.
StoredBook  == Chars("Genesis")
AbsentBook  == Chars("Job")
UnknownBook == Chars("Foo")

StoreOf(data) == (JsonFilename(StoredBook) :> data)

\* ---- citations ----

Numbers == (1..MaxNumber) \cup {TwoDigits}

\* "n[m] Kings", the historical numbering of the books of Kings
KingsForm(n, m) == str(n) \o <<"[">> \o str(m) \o Chars("] Kings")

KingsForms == {KingsForm(n, m) : n \in Numbers, m \in Numbers} \cup {KingsForm(3, 1)}

CitationBooks ==
    BookNames \cup KingsForms \cup {Chars("Wisdom"), UnknownBook}

PointCitation(b, c, v) == b \o <<" ">> \o str(c) \o <<":">> \o str(v)

RangeCitation(b, c, v1, sep, v2) ==
    b \o <<" ">> \o str(c) \o <<sep>> \o str(v1) \o <<"-">> \o str(v2)

CrossCitation(b, c1, v1, sep, c2, v2) ==
    b \o <<" ">> \o str(c1) \o <<sep>> \o str(v1) \o <<"-">>
        \o str(c2) \o <<sep>> \o str(v2)

\* the citations of parse_reading_reference's docstring
ExampleCitations ==
    { Chars("Genesis 3:1-8"), Chars("John 10:9"), Chars("Exodus 15.22-16.1"),
      Chars("Exodus 15:22-16:1"), Chars("3[1] Kings 2.6-14"), Chars("1 Kings 2:6-14") }

Citations ==
    {PointCitation(b, c, v) : b \in CitationBooks, c \in Numbers, v \in Numbers}
        \cup {RangeCitation(b, c, v[1], sep, v[2]) :
                b \in CitationBooks, c \in Numbers, v \in Numbers \X Numbers,
                sep \in {":", "."}}
        \cup {CrossCitation(b, c[1], v[1], sep, c[2], v[2]) :
                b \in CitationBooks, c \in Numbers \X Numbers,
                v \in Numbers \X Numbers, sep \in {":", "."}}
        \cup {b \o <<" ">> \o str(c) : b \in CitationBooks, c \in Numbers}
        \cup ExampleCitations

\* ---- [Readings]: fields ----

\* The store the readings are resolved against.
ReadingStore ==
    (JsonFilename(Chars("Genesis")) :> FullData)
        @@ (JsonFilename(Chars("1 Kings")) :> FullData)

Segments ==
    { Chars("Job 3:1"), Chars("John 1:2"), Chars("7"), <<>>,
      Chars("Composite 1 - Job 3:1") }

Separators == {Bullet, Chars("; ")}

\* s[1] sep[1] s[2] ... sep[n-1] s[n]
RECURSIVE Interleave(_, _)
Interleave(segs, seps) ==
    IF Len(segs) = 1 THEN segs[1]
    ELSE segs[1] \o seps[1] \o Interleave(Tail(segs), Tail(seps))

SegmentFields ==
    UNION { {Interleave(segs, seps) : segs \in [1..n -> Segments],
                                       seps \in [1..(n - 1) -> Separators]} :
            n \in 1..MaxSegments }

SeriesFirsts ==
    { Chars("Genesis 3:1-8"), Chars("Genesis 2:1-2"), Chars("Job 2:13-4:3"),
      Chars("Genesis 1:2-3:1"), Chars("1 Kings 2:6-14"), Chars("3[1] Kings 2.6-14"),
      Chars("Foo 1:1"), Chars("Genesis 3") }

SeriesParts ==
    { Chars("10"), Chars("12-14"), Chars("3.1-2"), Chars("3:2"), Chars("16"), Chars("2-1"),
      Chars("x"), Chars("Foo 1:1"), Chars("Genesis 1:2") }

SeriesFields ==
    { Join(Chars(", "), <<first>> \o rest) :
        first \in SeriesFirsts, rest \in SeqsOf(SeriesParts, 0, MaxParts - 1) }

ExampleFields ==
    { Chars("Composite 1 - Genesis 3:1-8") \o Bullet \o Chars("Psalms 1:1-2; John 1:1"),
      Chars("Genesis 3:1-8") \o Bullet \o Chars("Job 2:13-4:3"),
      <<>> }

ReadingFields == SegmentFields \cup SeriesFields \cup ExampleFields

(***************************************************************************)
(* The state machine: a call is drawn, then it runs to its return.         *)
(***************************************************************************)

InitCall(f, a, nc, store) ==
    /\ pc = "call"
    /\ fn = f
    /\ args = a
    /\ ret = None
    /\ clean_readings = <<>>
    /\ parsed_references = <<>>
    /\ stdout = <<>>
    /\ random_verse = None
    /\ no_color = nc
    /\ BIBLE_DIR = store

InitParse ==
    \E reference \in Citations :
        InitCall("parse_reading_reference", [reference |-> reference], TRUE, <<>>)

InitText ==
    \E book \in {StoredBook, AbsentBook, UnknownBook},
       c \in (1..MaxChapter) \X (1..MaxChapter),
       v \in (1..MaxVerse) \X (1..MaxVerse),
       data \in StoreData, nc \in BOOLEAN :
        /\ book # StoredBook => data = FullData
        /\ InitCall("get_bible_text",
                    [book |-> book, start_chapter |-> c[1], start_verse |-> v[1],
                     end_chapter |-> c[2], end_verse |-> v[2]],
                    nc, StoreOf(data))

\* ---- the tokens of --bible ----

\* the books asked for: one, two and three words, with and without a file,
\* and a name that is no key of BOOK_CODES
BibleBooks ==
    { Chars("Genesis"), Chars("Job"), Chars("1 Kings"), Chars("Song of Solomon"),
      UnknownBook }

\* "C", "C:V", "C:V1-V2", "C.V1-V2" and "C1:V1-C2:V2"
BibleReferences ==
    {str(c) : c \in 1..MaxChapter}
        \cup {str(c) \o <<":">> \o str(v) : c \in 1..MaxChapter, v \in 1..MaxVerse}
        \cup {str(c) \o <<sep>> \o str(v[1]) \o <<"-">> \o str(v[2]) :
                    c \in 1..MaxChapter, v \in (1..MaxVerse) \X (1..MaxVerse),
                    sep \in {":", "."}}
        \cup {str(c[1]) \o <<":">> \o str(v[1]) \o <<"-">> \o str(c[2]) \o <<":">> \o str(v[2]) :
                    c \in (1..MaxChapter) \X (1..MaxChapter),
                    v \in (1..MaxVerse) \X (1..MaxVerse)}

\* the words of a book name, alone or followed by a reference or by a token
\* that is none
BibleTokens ==
    {Split(book, <<" ">>) : book \in BibleBooks}
        \cup {Split(book, <<" ">>) \o <<reference>> :
                    book \in BibleBooks, reference \in BibleReferences \cup {Chars("x")}}

BibleStore ==
    (JsonFilename(Chars("Genesis")) :> FullData)
        @@ (JsonFilename(Chars("1 Kings")) :> FullData)
        @@ (JsonFilename(Chars("Song of Solomon")) :> MissingVerse(1, MaxVerse))

\* BibleStore with another file for Genesis: a verse or a chapter missing, a
\* chapter without verses, in descending order, listed twice
BibleStores ==
    {BibleStore}
        \cup {(JsonFilename(Chars("Genesis")) :> data) @@ BibleStore :
                    data \in {MissingVerse(2, 1), MissingChapter(2), EmptyChapter(2),
                              ReversedChapter(2), DuplicateChapter(2)}}

InitBible ==
    \E tokens \in BibleTokens, nc \in BOOLEAN, store \in BibleStores :
        InitCall("handle_bible_command", [args |-> tokens], nc, store)

\* ---- --random-verse ----

\* no book asked for, a book with a file, one without, and an unknown name
RandomBooks == {None, StoredBook, AbsentBook, UnknownBook}

\* the stores of --bible, one whose genesis.json is no JSON, and an empty one
RandomStores ==
    BibleStores \cup {StoreOf(NotJson), StoreOf(NoChapters), <<>>}

InitRandom ==
    \E book_name \in RandomBooks, nc \in BOOLEAN, store \in RandomStores :
        InitCall("handle_random_verse", [book_name |-> book_name], nc, store)

\* get_bible_text on a store file of any content, for the references the
\* parsers produce
InitStore ==
    \E c \in (1..MaxChapter) \X (1..MaxChapter),
       v \in (1..MaxVerse) \X (1..MaxVerse),
       data \in MalformedData \cup {FullData}, nc \in BOOLEAN :
        InitCall("get_bible_text",
                 [book |-> StoredBook, start_chapter |-> c[1], start_verse |-> v[1],
                  end_chapter |-> c[2], end_verse |-> v[2]],
                 nc, StoreOf(data))

InitReading ==
    \E readings_text \in ReadingFields, reading_number \in 1..MaxReading, nc \in BOOLEAN :
        InitCall("display_reading",
                 [readings_text |-> readings_text, reading_number |-> reading_number],
                 nc, ReadingStore)

\* ---- the daily display ----

\* Readings fields whose numbered readings do not fit into one line.
LongFields ==
    { Chars("7") \o Bullet
        \o Chars("3[1] Kings 2.6-14, 10, 12-14, 16, 3:2, 2-1, 10, 12-14, 16, 3.1-2")
        \o Bullet \o Chars("Job 3:1"),
      Chars("Composite 1 - Genesis 3:1-8, 10, 12-14, 3.1-2, 3:2, 16, 2-1, Genesis 1:2, 10; John 1:2"),
      Chars("Wisdom of Solomon 3:1-9, 11, 13-15, 17, 19-21, 23, 25-27, 29, 31-33, 35") }

WrapFields == ReadingFields \cup LongFields

InitWrap ==
    \E text \in WrapFields :
        InitCall("wrap_readings", [text |-> text, width |-> WRAP_WIDTH], FALSE, ReadingStore)

Init ==
    \/ InitParse \/ InitText \/ InitStore \/ InitReading \/ InitBible \/ InitRandom
    \/ InitWrap

ParseReadingReference ==
    /\ pc = "call" /\ fn = "parse_reading_reference"
    /\ ret' = parse_reading_reference(args.reference)
    /\ pc' = "done"
    /\ UNCHANGED <<fn, args, clean_readings, parsed_references, stdout, random_verse,
                 no_color, BIBLE_DIR>>

GetBibleText ==
    /\ pc = "call" /\ fn = "get_bible_text"
    /\ ret' = get_bible_text(args.book, args.start_chapter, args.start_verse,
                             args.end_chapter, args.end_verse, BIBLE_DIR, no_color)
    /\ pc' = "done"
    /\ UNCHANGED <<fn, args, clean_readings, parsed_references, stdout, random_verse,
                 no_color, BIBLE_DIR>>

DisplayReading ==
    /\ pc = "call" /\ fn = "display_reading"
    /\ \E r \in {display_reading(args.readings_text, args.reading_number,
                                  BIBLE_DIR, no_color)} :
           /\ clean_readings' = r.clean_readings
           /\ parsed_references' = r.parsed_references
           /\ stdout' = r.stdout
    /\ pc' = "done"
    /\ UNCHANGED <<fn, args, ret, random_verse, no_color, BIBLE_DIR>>

\* ret is the text of the exception that leaves the handler, None without.
HandleBibleCommand ==
    /\ pc = "call" /\ fn = "handle_bible_command"
    /\ args.args # <<>>
    /\ \E r \in {handle_bible_command(args.args, BIBLE_DIR, no_color)} :
           /\ stdout' = r.stdout
           /\ ret' = r.raises
    /\ pc' = "done"
    /\ UNCHANGED <<fn, args, clean_readings, parsed_references, random_verse, no_color, BIBLE_DIR>>

HandleRandomVerse ==
    /\ pc = "call" /\ fn = "handle_random_verse"
    /\ \E chosen \in get_random_verse(args.book_name, BIBLE_DIR) :
           /\ random_verse' = chosen
           /\ stdout' = handle_random_verse(chosen, BIBLE_DIR, no_color)
    /\ pc' = "done"
    /\ UNCHANGED <<fn, args, ret, clean_readings, parsed_references, no_color, BIBLE_DIR>>

\* ret is the list of lines the daily display shows for the Readings field.
WrapReadings ==
    /\ pc = "call" /\ fn = "wrap_readings"
    /\ ret' = wrap_readings(args.text, args.width)
    /\ pc' = "done"
    /\ UNCHANGED <<fn, args, clean_readings, parsed_references, stdout, random_verse,
                 no_color, BIBLE_DIR>>

Next ==
    \/ ParseReadingReference \/ GetBibleText \/ DisplayReading \/ HandleBibleCommand
    \/ HandleRandomVerse \/ WrapReadings

Spec == Init /\ [][Next]_vars

\* The calls of one function alone.
SpecParse == InitParse /\ [][ParseReadingReference]_vars

SpecText == InitText /\ [][GetBibleText]_vars

SpecStore == InitStore /\ [][GetBibleText]_vars

SpecReading == InitReading /\ [][DisplayReading]_vars

SpecBible == InitBible /\ [][HandleBibleCommand]_vars

SpecRandom == InitRandom /\ [][HandleRandomVerse]_vars

SpecWrap == InitWrap /\ [][WrapReadings]_vars

(***************************************************************************)
(* Reading what a call printed or returned                                 *)
(***************************************************************************)

ColourCodes == {RESET, GOLD, DEEP_RED, PURPLE, CYAN, WHITE, GRAY}

\* a text without its colour codes
Plain(text) == SelectSeq(text, LAMBDA ch : ch \notin ColourCodes)

\* the lines of a text, colour codes removed
OutputLines(text) == Split(Plain(text), <<"\n">>)

\* the number a verse line starts with
LineNumber(line) == int(SubSeq(line, 1, Find(line, <<" ">>) - 1))

\* the k-th smallest of a set of positions
Kth(S, k) == CHOOSE p \in S : Cardinality({q \in S : q < p}) = k - 1

\* the positions of the records of verses whose number lies in lo..hi
InRange(verses, lo, hi) ==
    {i \in 1..Len(verses) : lo <= verses[i].verse /\ verses[i].verse <= hi}

\* "<number> <text>" of the records at the positions S, by position
RecordLines(verses, S) ==
    [k \in 1..Cardinality(S) |->
        str(verses[Kth(S, k)].verse) \o <<" ">> \o verses[Kth(S, k)].text]

IsAscending(verses) ==
    \A i, j \in 1..Len(verses) : i < j => verses[i].verse < verses[j].verse

(***************************************************************************)
(* get_bible_text, one chapter                                             *)
(***************************************************************************)

\* get_bible_text returned for a book of the registry whose file exists
TextResolved ==
    /\ pc = "done" /\ fn = "get_bible_text"
    /\ BookCode(args.book) # None
    /\ JsonFilename(args.book) \in DOMAIN BIBLE_DIR

StoredData == BIBLE_DIR[JsonFilename(args.book)]

\* ... for a single-chapter reference V1 <= V2 whose chapter is in the store
SingleChapterCase ==
    /\ TextResolved
    /\ args.end_chapter = args.start_chapter
    /\ args.start_verse <= args.end_verse
    /\ With(StoredData, LAMBDA data :
            \E i \in 1..Len(data.chapters) : data.chapters[i].chapter = args.start_chapter)

RequestedVerses == ChapterVerses(StoredData, args.start_chapter)

RequestedPositions == InRange(RequestedVerses, args.start_verse, args.end_verse)

NoVerseMessage ==
    Chars("Verses ") \o str(args.start_verse) \o <<"-">> \o str(args.end_verse)
        \o Chars(" not found in ") \o args.book \o <<" ">> \o str(args.start_chapter)
        \o <<".">>

PointHeader ==
    args.book \o <<" ">> \o str(args.start_chapter) \o <<":">> \o str(args.start_verse)

CrossChapterCase == TextResolved /\ args.end_chapter > args.start_chapter

\* the lines a cross-chapter reference asks of chapter c
SpanLinesOf(c) ==
    LET verses == ChapterVerses(StoredData, c)
        kept == SelectSeq(verses, LAMBDA r :
                    /\ c = args.start_chapter => r.verse >= args.start_verse
                    /\ c = args.end_chapter => r.verse <= args.end_verse)
    IN  [i \in 1..Len(kept) |-> str(kept[i].verse) \o <<" ">> \o kept[i].text]

\* ... of the chapters c..end_chapter, in ascending chapter order
RECURSIVE SpanLinesFrom(_)
SpanLinesFrom(c) ==
    IF c > args.end_chapter THEN <<>> ELSE SpanLinesOf(c) \o SpanLinesFrom(c + 1)

CrossHeader ==
    args.book \o <<" ">> \o str(args.start_chapter) \o <<":">> \o str(args.start_verse)
        \o <<"-">> \o str(args.end_chapter) \o <<":">> \o str(args.end_verse)

\* C3: a cross-chapter reference (end_chapter > start_chapter) is answered
\* with, in this order and nothing else, the verses of start_chapter numbered
\* start_verse or more, every verse of each chapter strictly between in
\* ascending chapter order, and the verses of end_chapter numbered end_verse
\* or less, under the header "B C1:V1-C2:V2"; when that is no verse at all,
\* with the message "Verses C1:V1-C2:V2 not found in B.".
C3_CrossChapterOrder ==
    CrossChapterCase =>
        IF SpanLinesFrom(args.start_chapter) = <<>>
        THEN Plain(ret) = Chars("Verses ") \o str(args.start_chapter) \o <<":">>
                            \o str(args.start_verse) \o <<"-">> \o str(args.end_chapter)
                            \o <<":">> \o str(args.end_verse)
                            \o Chars(" not found in ") \o args.book \o <<".">>
        ELSE OutputLines(ret) =
                << <<>>, CrossHeader >> \o SpanLinesFrom(args.start_chapter)

\* a span with a chapter strictly between, cut at both ends
C3_Witness ==
    /\ CrossChapterCase
    /\ args.end_chapter > args.start_chapter + 1
    /\ args.start_verse > 1
    /\ args.end_verse < Len(ChapterVerses(StoredData, args.end_chapter))
    /\ StoredData = FullData
    /\ Len(OutputLines(ret)) =
            2 + (MaxVerse - args.start_verse + 1)
              + (args.end_chapter - args.start_chapter - 1) * MaxVerse
              + args.end_verse

(***************************************************************************)
(* display_reading, a comma-joined series                                  *)
(***************************************************************************)

ReadingDone == pc = "done" /\ fn = "display_reading"

\* display_reading returned and the selected reading was the whole field, a
\* comma-joined series
SeriesCase ==
    /\ ReadingDone
    /\ args.reading_number = 1
    /\ Contains(args.readings_text, <<",">>)
    /\ ~Contains(args.readings_text, Bullet)
    /\ ~StartsWith(args.readings_text, Chars("Composite"))

\* the comma parts of the series, blanks stripped
SeriesPartsOf(text) ==
    LET pieces == Split(text, <<",">>)
    IN  [i \in 1..Len(pieces) |-> Strip(pieces[i])]

GivenParts == SeriesPartsOf(args.readings_text)

\* a part without chapter: "V" or "V1-V2"
IsBareVerses(part) ==
    /\ ~Contains(part, <<":">>) /\ ~Contains(part, <<".">>)
    /\ \/ IsDigit(part)
       \/ LET two == Split(part, <<"-">>)
          IN  Len(two) = 2 /\ IsDigit(two[1]) /\ IsDigit(two[2])

\* <<V1, V2>> of a part "V1-V2", <<V, V>> of a part "V"
BareVerses(part) ==
    LET two == Split(part, <<"-">>)
    IN  IF Len(two) = 2 THEN <<DigitsValue(two[1]), DigitsValue(two[2])>>
        ELSE <<DigitsValue(part), DigitsValue(part)>>

\* the registry names B for which part reads "B C:V1-V2"
RangeBooksOf(part) ==
    {b \in BookNames :
        /\ StartsWith(part, b \o <<" ">>)
        /\ LET cv == Split(SubSeq(part, Len(b) + 2, Len(part)), <<":">>)
           IN  /\ Len(cv) = 2 /\ IsDigit(cv[1])
               /\ LET vv == Split(cv[2], <<"-">>)
                  IN  Len(vv) = 2 /\ IsDigit(vv[1]) /\ IsDigit(vv[2])}

\* (B, C, V1, C, V2) of a part "B C:V1-V2"
RangeOf(part, b) ==
    LET cv == Split(SubSeq(part, Len(b) + 2, Len(part)), <<":">>)
        vv == Split(cv[2], <<"-">>)
    IN  <<b, DigitsValue(cv[1]), DigitsValue(vv[1]), DigitsValue(cv[1]), DigitsValue(vv[2])>>

\* the references C4 names for the series "B C:V1-V2, p2, ..., pn"
SeriesReferences(parts, b) ==
    [k \in 1..Len(parts) |->
        IF k = 1 THEN RangeOf(parts[1], b)
        ELSE <<b, RangeOf(parts[1], b)[2], BareVerses(parts[k])[1],
               RangeOf(parts[1], b)[2], BareVerses(parts[k])[2]>>]

\* C4: a series "B C:V1-V2, p2, ..., pn" with B in the registry and p2..pn
\* bare verses or verse ranges is parsed into n references, in the order of
\* the parts, each with book B and chapter C, and the passages are printed in
\* that order.
C4_SeriesOfBareParts ==
    SeriesCase =>
        \A b \in RangeBooksOf(GivenParts[1]) :
            (\A k \in 2..Len(GivenParts) : IsBareVerses(GivenParts[k])) =>
                LET refs == SeriesReferences(GivenParts, b)
                IN  /\ parsed_references = refs
                    /\ stdout = [k \in 1..Len(refs) |->
                                    get_bible_text(refs[k][1], refs[k][2], refs[k][3],
                                                   refs[k][4], refs[k][5],
                                                   BIBLE_DIR, no_color)]

\* C5: the first part of a series that reads as a full reference to a book of
\* the registry, also one whose name starts with a digit ("1 Kings") or is
\* written in the historical form ("3[1] Kings"), is parsed by the grammar
\* and is the first parsed reference.
C5_FirstPartIsFullReference ==
    SeriesCase =>
        LET first == parse_reading_reference(GivenParts[1])
        IN  (first # None /\ first[1] \in BookNames) =>
                /\ Len(parsed_references) >= 1
                /\ parsed_references[1] = first

\* C6 as stated: in a series, the reference of a part without chapter has the
\* book and the chapter of the element right before it: the chapter a
\* "C.V" part changed to, or the end chapter of a cross-chapter first part.
C6_ChapterOfPrecedingElement ==
    SeriesCase =>
        \A k \in 2..Len(parsed_references) :
            IsBareVerses(GivenParts[k]) =>
                /\ parsed_references[k][1] = parsed_references[k - 1][1]
                /\ parsed_references[k][2] = parsed_references[k - 1][4]
                /\ parsed_references[k][4] = parsed_references[k - 1][4]

\* C6 amended: in a series, the reference of a part without chapter has the
\* book and the start chapter of the FIRST element of the series, whatever
\* the elements between them are, and the verses the part names.
C6_ChapterOfFirstElement ==
    SeriesCase =>
        \A k \in 2..Len(parsed_references) :
            IsBareVerses(GivenParts[k]) =>
                parsed_references[k] =
                    << parsed_references[1][1], parsed_references[1][2],
                       BareVerses(GivenParts[k])[1],
                       parsed_references[1][2], BareVerses(GivenParts[k])[2] >>

\* a bare part after a part that changed the chapter: the first chapter is used
C6_Witness ==
    /\ SeriesCase
    /\ Len(parsed_references) >= 3
    /\ IsBareVerses(GivenParts[3])
    /\ parsed_references[2][2] # parsed_references[1][2]
    /\ parsed_references[3][2] = parsed_references[1][2]

(***************************************************************************)
(* display_reading, the citation splitter                                  *)
(***************************************************************************)

CompositeExample ==
    Chars("Composite 1 - Genesis 3:1-8") \o Bullet \o Chars("Psalms 1:1-2; John 1:1")

\* the citations the generated fields are written with
KnownCitations == {Chars("Job 3:1"), Chars("John 1:2"), Chars("Genesis 3:1-8")}

\* C7: every semicolon-separated group of a composite reading becomes a
\* citation of its own, also after a bullet inside the composite: the field
\* "Composite 1 - A (bullet) B; C" gives the three citations A, B, C, as
\* "Composite 1 - Genesis 3:1-8 (bullet) Psalms 1:1-2; John 1:1" gives
\* "Genesis 3:1-8", "Psalms 1:1-2", "John 1:1".
C7_CompositeGroupsSplit ==
    ReadingDone =>
        /\ \A a \in KnownCitations, b \in KnownCitations, c \in KnownCitations :
                args.readings_text
                    = Chars("Composite 1 - ") \o a \o Bullet \o b \o Chars("; ") \o c
                => clean_readings = <<a, b, c>>
        /\ args.readings_text = CompositeExample =>
                clean_readings =
                    <<Chars("Genesis 3:1-8"), Chars("Psalms 1:1-2"), Chars("John 1:1")>>

\* the number of places where p occurs in s
Occurrences(s, p) == Cardinality({i \in 1..Len(s) : StartsWithAt(s, p, i)})

RECURSIVE OccurrencesIn(_, _)
OccurrencesIn(entries, p) ==
    IF entries = <<>> THEN 0
    ELSE Occurrences(Head(entries), p) + OccurrencesIn(Tail(entries), p)

\* entries k.. occur in text one after the other, without overlap, from
\* position from on
RECURSIVE InOrderFrom(_, _, _, _)
InOrderFrom(entries, k, text, from) ==
    IF k > Len(entries) THEN TRUE
    ELSE LET at == {i \in from..Len(text) : StartsWithAt(text, entries[k], i)}
         IN  /\ at # {}
             /\ InOrderFrom(entries, k + 1, text,
                            (CHOOSE i \in at : \A j \in at : i <= j) + Len(entries[k]))

\* C8: the splitter's list holds no empty and no purely numeric string; its
\* entries are pieces of the field in their left-to-right order; and a
\* citation is in the list as many times as in the field, two equal citations
\* separated by a bullet being two entries.
C8_SplitterOutput ==
    ReadingDone =>
        /\ \A k \in 1..Len(clean_readings) :
                /\ clean_readings[k] # <<>>
                /\ ~IsDigit(clean_readings[k])
                /\ ~Contains(clean_readings[k], Bullet)
        /\ InOrderFrom(clean_readings, 1, args.readings_text, 1)
        /\ \A c \in KnownCitations :
                OccurrencesIn(clean_readings, c) = Occurrences(args.readings_text, c)

\* a field with a citation twice, a number and an empty segment
C8_Witness ==
    /\ ReadingDone
    /\ args.readings_text
            = Chars("Job 3:1") \o Bullet \o Chars("7") \o Bullet \o Chars("Job 3:1")
    /\ clean_readings = <<Chars("Job 3:1"), Chars("Job 3:1")>>

(***************************************************************************)
(* parse_reading_reference                                                 *)
(***************************************************************************)

ParseDone == pc = "done" /\ fn = "parse_reading_reference"

\* end_chapter >= start_chapter, and end_verse >= start_verse in one chapter
IsOrdered(ref) ==
    /\ ref[4] >= ref[2]
    /\ ref[4] = ref[2] => ref[5] >= ref[3]

\* the citation is written "B C1:V1-C2:V2", with dots or colons
IsCrossForm(reference) ==
    Cardinality({i \in 1..Len(reference) : reference[i] \in {":", "."}}) = 2

\* C9: every reference the parser produces, from parse_reading_reference or
\* from a series of display_reading, has end_chapter >= start_chapter, and
\* end_verse >= start_verse when the chapters are equal; a citation of the
\* cross-chapter form gives a reference only with its second chapter greater
\* than its first.
C9_ReferencesOrdered ==
    /\ (ParseDone /\ ret # None) =>
            /\ IsOrdered(ret)
            /\ IsCrossForm(args.reference) => ret[4] > ret[2]
    /\ ReadingDone =>
            \A k \in 1..Len(parsed_references) : IsOrdered(parsed_references[k])

\* C10: parse_reading_reference of the header get_bible_text builds for a
\* single-chapter reference (B, C, V1, C, V2), B a name of the registry and
\* V1 <= V2, is (B, C, V1, C, V2) again.
C10_HeaderRoundTrip ==
    ParseDone =>
        \A b \in BookNames, c \in Numbers, v1 \in Numbers, v2 \in Numbers :
            (v1 <= v2 /\ args.reference = Header(b, c, v1, c, v2)) =>
                ret = <<b, c, v1, c, v2>>

(***************************************************************************)
(* parse_reading_reference, the rewrites before the grammar                *)
(***************************************************************************)

\* C11: for all numbers n, m and every suffix s, "n[m] Kings s" parses as
\* "m Kings s"; "3[1] Kings 2.6-14" parses to (1 Kings, 2, 6, 2, 14), as
\* "1 Kings 2:6-14" does.
C11_KingsRewrite ==
    ParseDone =>
        /\ \A n \in Numbers \cup {3}, m \in Numbers :
                StartsWith(args.reference, KingsForm(n, m) \o <<" ">>) =>
                    ret = parse_reading_reference(
                            str(m) \o Chars(" Kings")
                                \o SubSeq(args.reference, Len(KingsForm(n, m)) + 1,
                                          Len(args.reference)))
        /\ args.reference \in {Chars("3[1] Kings 2.6-14"), Chars("1 Kings 2:6-14")} =>
                ret = <<Chars("1 Kings"), 2, 6, 2, 14>>

\* the historical form with two different numbers, parsed
C11_Witness ==
    /\ ParseDone
    /\ args.reference = Chars("3[1] Kings 2.6-14")
    /\ ret = <<Chars("1 Kings"), 2, 6, 2, 14>>

\* C12: a citation written with '.' for ':' parses as the citation written
\* with ':', in the single-chapter and in the cross-chapter form
\* ("Exodus 15.22-16.1" parses as "Exodus 15:22-16:1"), and a series whose
\* chapter-changing parts are written "C.V1-V2" yields the references of the
\* series written with "C:V1-V2".
C12_DotAsColon ==
    /\ ParseDone =>
            /\ ret = parse_reading_reference(Replace(args.reference, <<".">>, <<":">>))
            /\ args.reference = Chars("Exodus 15.22-16.1") =>
                    ret = <<Chars("Exodus"), 15, 22, 16, 1>>
    /\ SeriesCase =>
            parsed_references
                = ParsedReferences(Replace(args.readings_text, <<".">>, <<":">>)).refs

\* a cross-chapter citation written with dots, parsed
C12_Witness ==
    /\ ParseDone
    /\ args.reference = Chars("Exodus 15.22-16.1")
    /\ ret = <<Chars("Exodus"), 15, 22, 16, 1>>

\* C19: for all C, V1, V2, "Wisdom C:V1-V2" parses to the book
\* "Wisdom of Solomon" with the numbers of the citation; that name is a key
\* of the registry and names the store file "wisdom".
C19_WisdomAlias ==
    ParseDone =>
        \A c \in Numbers, v1 \in Numbers, v2 \in Numbers :
            args.reference = RangeCitation(Chars("Wisdom"), c, v1, ":", v2) =>
                /\ ret = <<Chars("Wisdom of Solomon"), c, v1, c, v2>>
                /\ BookCode(ret[1]) # None
                /\ JsonFilename(ret[1]) = Chars("wisdom")

\* a citation of the alias, parsed to the registry name
C19_Witness ==
    /\ ParseDone
    /\ args.reference = Chars("Wisdom 2:1-13")
    /\ ret = <<Chars("Wisdom of Solomon"), 2, 1, 2, 13>>

(***************************************************************************)
(* display_reading, citations that cannot be resolved or parsed            *)
(***************************************************************************)

BookNotFound(book) == Chars("Book '") \o book \o Chars("' not found.")

\* C13: a citation whose book is no key of the registry is answered with the
\* message "Book 'B' not found." and touches no other citation: in a series
\* whose parts all parse, every reference is answered in its place, the
\* unknown books with the message and the others with their passage.
C13_UnknownBookOnly ==
    (SeriesCase /\ Len(parsed_references) = Len(GivenParts)) =>
        /\ Len(stdout) = Len(parsed_references)
        /\ \A k \in 1..Len(parsed_references) :
                IF BookCode(parsed_references[k][1]) = None
                THEN stdout[k] = BookNotFound(parsed_references[k][1])
                ELSE stdout[k] = get_bible_text(
                        parsed_references[k][1], parsed_references[k][2],
                        parsed_references[k][3], parsed_references[k][4],
                        parsed_references[k][5], BIBLE_DIR, no_color)

\* an unknown book first, then a citation of a stored book with its passage
C13_Witness ==
    /\ SeriesCase
    /\ args.readings_text = Chars("Foo 1:1, Genesis 1:2")
    /\ Len(stdout) = 2
    /\ stdout[1] = BookNotFound(Chars("Foo"))
    /\ OutputLines(stdout[2]) = << <<>>, Chars("Genesis 1:2"), Chars("2 t1 2") >>

Unparseable == Chars("x")

IsParseFailure(text) ==
    /\ StartsWith(Plain(text), Chars("Could not parse"))
    /\ Contains(text, Unparseable)

\* C14: an unparseable part of a series is reported by a message that names
\* it, and the other parts are still resolved: when the series without the
\* part parses, what is printed is the message and, in their order, the
\* passages of the other parts, those before and those after it.
C14_ParseFailureDoesNotAbort ==
    SeriesCase =>
        LET others == SelectSeq(GivenParts, LAMBDA part : part # Unparseable)
            rest == ParsedReferences(Join(Chars(", "), others))
        IN  (Len(others) = Len(GivenParts) - 1 /\ rest.err = None) =>
                /\ \E k \in 1..Len(stdout) : IsParseFailure(stdout[k])
                /\ SelectSeq(stdout, LAMBDA text : ~IsParseFailure(text))
                        = PrintPassages(rest.refs, BIBLE_DIR, no_color)

(***************************************************************************)
(* get_bible_text, absent chapters and the header                          *)
(***************************************************************************)

\* the chapter numbers the store file lists
StoredChapters ==
    With(StoredData, LAMBDA data :
        {data.chapters[i].chapter : i \in 1..Len(data.chapters)})

ChapterNotFound ==
    Chars("Chapter ") \o str(args.start_chapter) \o Chars(" of ") \o args.book
        \o Chars(" not found.")

\* C16: a single-chapter reference whose chapter is absent from the store
\* file is answered with the message "Chapter C of B not found." alone: no
\* header, no verse line.
C16_ChapterNotFound ==
    (TextResolved /\ args.end_chapter = args.start_chapter
        /\ args.start_chapter \notin StoredChapters) =>
            /\ ret = ChapterNotFound
            /\ Len(OutputLines(ret)) = 1

\* a chapter taken out of the store and asked for
C16_Witness ==
    /\ TextResolved /\ args.end_chapter = args.start_chapter
    /\ StoredData = MissingChapter(args.start_chapter)
    /\ ret = Chars("Chapter ") \o str(args.start_chapter) \o Chars(" of Genesis not found.")

\* the text returned is a passage: an empty line, the header, the verse lines
IsPassage(text) ==
    With(OutputLines(text), LAMBDA lines : Len(lines) >= 3 /\ lines[1] = <<>>)

VerseLinesOf(text) ==
    With(OutputLines(text), LAMBDA lines : SubSeq(lines, 3, Len(lines)))

\* the verse lines of a passage, no line of any other text
PassageLinesOf(text) ==
    With(OutputLines(text), LAMBDA lines :
        IF Len(lines) >= 3 /\ lines[1] = <<>> THEN SubSeq(lines, 3, Len(lines)) ELSE <<>>)

\* "<number> <text>" of every verse record the file holds for chapter c
StoredLines(c) ==
    With(StoredData, LAMBDA data :
        UNION {{str(data.chapters[i].verses[j].verse) \o <<" ">>
                    \o data.chapters[i].verses[j].text :
                  j \in 1..Len(data.chapters[i].verses)} :
               i \in {k \in 1..Len(data.chapters) : data.chapters[k].chapter = c}})

\* C17: in a cross-chapter reference a chapter of the span that is absent
\* from the store contributes no line and does not stop the other chapters:
\* every line under the header is a verse record the store holds for a
\* chapter of the span, and every line asked of a chapter that is stored is
\* there.
C17_AbsentChapterSkipped ==
    CrossChapterCase =>
        With(PassageLinesOf(ret), LAMBDA lines :
        With(SpanLinesFrom(args.start_chapter), LAMBDA asked :
        With(UNION {StoredLines(c) :
                        c \in (args.start_chapter..args.end_chapter) \cap StoredChapters},
             LAMBDA stored :
                IF asked = <<>>
                THEN lines = <<>>
                ELSE /\ lines # <<>>
                     /\ \A k \in 1..Len(lines) : lines[k] \in stored
                     /\ \A j \in 1..Len(asked) : \E k \in 1..Len(lines) : lines[k] = asked[j])))

\* a span of three chapters whose middle chapter is absent: the lines of the
\* first and of the last chapter, and no other
C17_Witness ==
    /\ CrossChapterCase
    /\ args.start_chapter = 1 /\ args.end_chapter = 3
    /\ StoredData = MissingChapter(2)
    /\ IsPassage(ret)
    /\ Len(VerseLinesOf(ret)) = (MaxVerse - args.start_verse + 1) + args.end_verse

SingleRangeHeader ==
    args.book \o <<" ">> \o str(args.start_chapter) \o <<":">> \o str(args.start_verse)
        \o <<"-">> \o str(args.end_verse)

\* C18: the header of a passage follows the shape of the reference, with the
\* book name and the numbers asked for: "B C:V" when start and end coincide,
\* "B C:V1-V2" for a range within one chapter, "B C1:V1-C2:V2" when
\* end_chapter > start_chapter.
C18_HeaderByShape ==
    (TextResolved /\ IsPassage(ret) /\ args.end_chapter >= args.start_chapter) =>
        OutputLines(ret)[2] =
            IF args.end_chapter > args.start_chapter THEN CrossHeader
            ELSE IF args.end_verse = args.start_verse THEN PointHeader
            ELSE SingleRangeHeader

\* a range whose first verse is absent: the header keeps the number asked for
C18_Witness ==
    /\ SingleChapterCase /\ IsPassage(ret)
    /\ args.start_verse < args.end_verse
    /\ args.start_verse \notin {RequestedVerses[i].verse : i \in 1..Len(RequestedVerses)}
    /\ OutputLines(ret)[2] = SingleRangeHeader
    /\ LineNumber(OutputLines(ret)[3]) > args.start_verse

(***************************************************************************)
(* get_bible_text, store files of any content                              *)
(***************************************************************************)

TextDone == pc = "done" /\ fn = "get_bible_text"

StoreFile == BIBLE_DIR[JsonFilename(args.book)]

ErrorPrefix ==
    Chars("Error reading ") \o args.book \o <<" ">> \o str(args.start_chapter) \o <<":">>
        \o str(args.start_verse) \o <<"-">>
        \o (IF args.end_chapter > args.start_chapter
            THEN str(args.end_chapter) \o <<":">> ELSE <<>>)
        \o str(args.end_verse) \o Chars(": ")

\* C15: whatever the store file of a registry book holds, get_bible_text
\* returns a text and no exception leaves it: the text is a passage, or a
\* message that starts with "Book ", "Chapter ", "Verses " or "Error reading ";
\* a file that cannot be loaded is answered with "Error reading <reference>: "
\* followed by the text of the exception.
C15_NoExceptionEscapes ==
    (TextDone /\ BookCode(args.book) # None) =>
        /\ ret # None
        /\ \/ IsPassage(ret)
           \/ \E prefix \in {Chars("Book "), Chars("Chapter "), Chars("Verses "),
                             Chars("Error reading ")} : StartsWith(Plain(ret), prefix)
        /\ IsRaise(StoreFile) => ret = ErrorPrefix \o StoreFile.raises

\* a verse entry that is a number, met by the loop: the text of the
\* AttributeError is returned
C15_Witness ==
    /\ TextDone
    /\ \E c \in 1..MaxChapter, v \in 1..MaxVerse :
            StoreFile = WithVerse(c, v, [scalar |-> Chars("int")])
    /\ ret = ErrorPrefix \o Chars("'int' object has no attribute 'get'")

(***************************************************************************)
(* handle_bible_command                                                    *)
(***************************************************************************)

BibleDone == pc = "done" /\ fn = "handle_bible_command"

CrossReference(c1, v1, c2, v2) ==
    str(c1) \o <<":">> \o str(v1) \o <<"-">> \o str(c2) \o <<":">> \o str(v2)

\* C20: for every book of the registry, of one word or of several, the
\* tokens of "<Book> C1:V1-C2:V2" make handle_bible_command print
\* get_bible_text(Book, C1, V1, C2, V2) and nothing else.
C20_CrossChapterForEveryBook ==
    BibleDone =>
        \A book \in BookNames :
            \A c \in (1..MaxChapter) \X (1..MaxChapter), v \in (1..MaxVerse) \X (1..MaxVerse) :
                args.args = Split(book, <<" ">>) \o <<CrossReference(c[1], v[1], c[2], v[2])>> =>
                    stdout = <<get_bible_text(book, c[1], v[1], c[2], v[2], BIBLE_DIR, no_color)>>

\* the same for the books of one word alone
C20_CrossChapterForOneWordBooks ==
    BibleDone =>
        \A book \in {b \in BookNames : Len(Split(b, <<" ">>)) = 1} :
            \A c \in (1..MaxChapter) \X (1..MaxChapter), v \in (1..MaxVerse) \X (1..MaxVerse) :
                args.args = <<book, CrossReference(c[1], v[1], c[2], v[2])>> =>
                    stdout = <<get_bible_text(book, c[1], v[1], c[2], v[2], BIBLE_DIR, no_color)>>

(***************************************************************************)
(* get_bible_text, the lines of one chapter and the header                 *)
(***************************************************************************)

\* the branch of one chapter, taken for a chapter the store lists
SingleBranchCase ==
    /\ TextResolved
    /\ args.end_chapter <= args.start_chapter
    /\ args.start_chapter \in StoredChapters

\* the entry the store holds for start_chapter: the last one that lists it
StartChapterEntry ==
    With(StoredData, LAMBDA data :
        With({i \in 1..Len(data.chapters) : data.chapters[i].chapter = args.start_chapter},
             LAMBDA idx : data.chapters[CHOOSE i \in idx : \A j \in idx : j <= i]))

\* its records numbered start_verse..end_verse, in the order of the store
SelectedRecords ==
    SelectSeq(StartChapterEntry.verses,
              LAMBDA r : args.start_verse <= r.verse /\ r.verse <= args.end_verse)

\* C24: in the branch of one chapter the lines under the header are exactly
\* the records of start_chapter whose number lies in start_verse..end_verse,
\* each once, in the order of the store, each as "<its number> <its text>":
\* as many lines as records selected, the k-th line that of the k-th record,
\* and nothing when no record is selected.
C24_SingleChapterLines ==
    SingleBranchCase =>
        With(PassageLinesOf(ret), LAMBDA lines :
        With(SelectedRecords, LAMBDA records :
            /\ Len(lines) = Len(records)
            /\ \A k \in 1..Len(records) :
                    lines[k] = str(records[k].verse) \o <<" ">> \o records[k].text
            /\ With(StoredLines(args.start_chapter), LAMBDA stored :
                    \A k \in 1..Len(lines) : lines[k] \in stored)))

\* a chapter stored in descending order, asked for in full: the lines follow
\* the store
C24_Witness ==
    /\ SingleBranchCase
    /\ StoredData = ReversedChapter(args.start_chapter)
    /\ args.start_verse = 1 /\ args.end_verse = MaxVerse
    /\ Len(VerseLinesOf(ret)) = MaxVerse
    /\ LineNumber(VerseLinesOf(ret)[1]) = MaxVerse
    /\ LineNumber(VerseLinesOf(ret)[MaxVerse]) = 1

\* the header the reference asks for
ExpectedHeader ==
    IF args.end_chapter > args.start_chapter THEN CrossHeader
    ELSE IF args.end_verse = args.start_verse THEN PointHeader
    ELSE SingleRangeHeader

\* the reference selects no record of the store
SelectsNothing ==
    IF args.end_chapter > args.start_chapter
    THEN SpanLinesFrom(args.start_chapter) = <<>>
    ELSE args.start_chapter \in StoredChapters /\ SelectedRecords = <<>>

VersesNotFoundMessage ==
    IF args.end_chapter > args.start_chapter
    THEN Chars("Verses ") \o str(args.start_chapter) \o <<":">> \o str(args.start_verse)
            \o <<"-">> \o str(args.end_chapter) \o <<":">> \o str(args.end_verse)
            \o Chars(" not found in ") \o args.book \o <<".">>
    ELSE NoVerseMessage

ChapterEntryOf(book, c) ==
    LET chapters == BIBLE_DIR[JsonFilename(book)].chapters
        idx == {i \in 1..Len(chapters) : chapters[i].chapter = c}
    IN  IF idx = {} THEN None ELSE chapters[CHOOSE i \in idx : \A j \in idx : j <= i]

\* the tokens are those of "<Book> <Chapter>", for a chapter the file lists
WholeChapterRequest(book, c) ==
    /\ BibleDone
    /\ JsonFilename(book) \in DOMAIN BIBLE_DIR
    /\ args.args = Split(book, <<" ">>) \o <<str(c)>>
    /\ ChapterEntryOf(book, c) # None

\* C23: the tokens of "<Book> <Chapter>", for a chapter the store lists, make
\* handle_bible_command print one text, whose lines under the header are one
\* line "<number> <text>" for every verse record of the chapter, in the order
\* of the store, and no other.
C23_WholeChapterPrinted ==
    \A book \in BookNames, c \in 1..MaxChapter :
        WholeChapterRequest(book, c) =>
            /\ Len(stdout) = 1
            /\ With(IF IsPassage(stdout[1]) THEN VerseLinesOf(stdout[1]) ELSE <<>>,
                    LAMBDA lines :
                With(ChapterEntryOf(book, c).verses, LAMBDA records :
                    /\ Len(lines) = Len(records)
                    /\ \A k \in 1..Len(records) :
                            lines[k] = str(records[k].verse) \o <<" ">> \o records[k].text))

\* the same for the chapters that list their verses in ascending order
C23_AscendingChapterPrinted ==
    \A book \in BookNames, c \in 1..MaxChapter :
        (WholeChapterRequest(book, c) /\ IsAscending(ChapterEntryOf(book, c).verses)) =>
            /\ Len(stdout) = 1
            /\ With(IF IsPassage(stdout[1]) THEN VerseLinesOf(stdout[1]) ELSE <<>>,
                    LAMBDA lines :
                With(ChapterEntryOf(book, c).verses, LAMBDA records :
                    /\ Len(lines) = Len(records)
                    /\ \A k \in 1..Len(records) :
                            lines[k] = str(records[k].verse) \o <<" ">> \o records[k].text))

(***************************************************************************)
(* handle_random_verse                                                     *)
(***************************************************************************)

RandomDone == pc = "done" /\ fn = "handle_random_verse"

\* "<number> <text>" of the records numbered verse that the file of the book
\* holds for the chapter
ChosenLines ==
    LET chapters == BIBLE_DIR[JsonFilename(random_verse.book_name)].chapters
    IN  UNION {{str(chapters[i].verses[j].verse) \o <<" ">> \o chapters[i].verses[j].text :
                    j \in {k \in 1..Len(chapters[i].verses) :
                                chapters[i].verses[k].verse = random_verse.verse}} :
               i \in {k \in 1..Len(chapters) : chapters[k].chapter = random_verse.chapter}}

\* C21: whenever get_random_verse returns (book, chapter, verse, verse, no
\* error), handle_random_verse prints one text: an empty line, the header
\* "book chapter:verse" and one line, that of the verse of the chapter.
C21_RandomVerseDisplayed ==
    (RandomDone /\ random_verse.error = None) =>
        /\ Len(stdout) = 1
        /\ With(OutputLines(stdout[1]), LAMBDA lines :
                /\ Len(lines) = 3
                /\ lines[1] = <<>>
                /\ lines[2] = random_verse.book_name \o <<" ">> \o str(random_verse.chapter)
                                \o <<":">> \o str(random_verse.verse)
                /\ lines[3] \in ChosenLines)

\* what is printed for a verse that was chosen is never the passage of the
\* verse: it is an error text, a message that no verse was found, or a
\* passage under the header "book chapter:verse-verse:None"
C21_NeverDisplayed ==
    (RandomDone /\ random_verse.error = None) =>
        \/ StartsWith(stdout[1], Chars("Error reading "))
        \/ StartsWith(Plain(stdout[1]), Chars("Verses "))
        \/ /\ IsPassage(stdout[1])
           /\ OutputLines(stdout[1])[2] =
                random_verse.book_name \o <<" ">> \o str(random_verse.chapter) \o <<":">>
                    \o str(random_verse.verse) \o <<"-">> \o str(random_verse.verse)
                    \o Chars(":None")


\* ---- C22 ----

WrapDone == pc = "done" /\ fn = "wrap_readings"

\* what wrap_readings puts before the i-th reading
Label(i) == Chars("  [") \o str(i) \o Chars("] ")

\* how many leading lines do not start with the label of reading i
RECURSIVE ContinuationRun(_, _)
ContinuationRun(lines, i) ==
    IF lines # <<>> /\ ~StartsWith(lines[1], Label(i))
    THEN 1 + ContinuationRun(Tail(lines), i) ELSE 0

\* The entries read back from the displayed lines: the entry labelled [i] is
\* the text after the label, continued by the lines up to the label [i + 1],
\* joined by one blank (the wrapping breaks the citations at blanks).
RECURSIVE LabelledEntries(_, _)
LabelledEntries(lines, i) ==
    IF lines = <<>> \/ ~StartsWith(lines[1], Label(i)) THEN <<>>
    ELSE With(ContinuationRun(Tail(lines), i + 1), LAMBDA n :
            <<Join(<<" ">>, <<Drop(lines[1], Len(Label(i)) + 1)>>
                              \o [j \in 1..n |-> LStrip(lines[j + 1])])>>
            \o LabelledEntries(Drop(lines, n + 2), i + 1))

\* C22: for every Readings field, the daily display labels as many readings
\* as display_reading can select, and the entry it labels [i] is the citation
\* display_reading selects for reading number i, up to the display-only
\* rewrite of "n[m] Kings" to "m Kings".
C22_NumbersAgree ==
    WrapDone =>
        With(CleanReadings(args.text), LAMBDA selected :
            With(LabelledEntries(ret, 1), LAMBDA entries :
                /\ Len(entries) = Len(selected)
                /\ \A i \in 1..Len(selected) : entries[i] = KingsRewrite(selected[i])))

\* A field with an all-digit piece that both lists drop, a Kings citation
\* rewritten for display and wrapped over two lines, and a second reading.
C22_Witness ==
    /\ WrapDone
    /\ With(CleanReadings(args.text), LAMBDA selected :
            /\ Len(selected) >= 2
            /\ Len(UnfilteredReadings(args.text)) > Len(selected)
            /\ KingsRewrite(selected[1]) # selected[1]
            /\ Len(ret) > Len(selected)
            /\ StartsWith(ret[Len(ret)], Label(2)))

====
